---- MODULE Spec2Model ----
(***************************************************************************)
(* asana_extensions: the rule abstraction (rules/rule_meta.py), the        *)
(* move-tasks rule (rules/move_tasks_rule.py), the rule runner             *)
(* (rules/rules.py) and the parts of the API wrapper (asana/client.py,     *)
(* asana/utils.py) that they drive.                                        *)
(*                                                                         *)
(* Python values that may be None are modelled as options: None is the     *)
(* empty set and a present value v is the singleton {v}.  A Python dict is *)
(* a function from key strings to values, so that a missing key is a key   *)
(* outside the DOMAIN.  The outcome of a call is a record [exc, val]:      *)
(* exc is "none" when the call returned val, otherwise the name of the     *)
(* exception that escaped it.                                              *)
(***************************************************************************)
EXTENDS Integers, Sequences, FiniteSets, TLC

VARIABLES
    rules,          \* the rule instances, in list order
    section_tasks,  \* the service: section gid -> task gids, top first
    client_cached,  \* whether _get_client.client holds a client
    sync_count,     \* per rule: invocations of _sync_and_validate_with_api
    ncalls,         \* direct is_valid()/execute() calls made so far
    last,           \* what the last call did and returned
    runner,         \* the frame of execute_rules
    ctor,           \* the MoveTasksRule construction under test
    fn_call         \* a call of a loader or utility function: its
                    \* arguments and, once it ended, its outcome

vars == <<rules, section_tasks, client_cached, sync_count, ncalls, last,
          runner, ctor, fn_call>>

-----------------------------------------------------------------------------
(* Python values *)

None == {}

Some(v) == {v}

Val(o) == CHOOSE v \in o : TRUE

\* bool(x) for x in {None, True, False}
Truthy(o) == o = Some(TRUE)

\* `a or b` on values of {None, True, False}: a if a is truthy, else b
PyOr(a, b) == IF Truthy(a) THEN a ELSE b

Return(v) == [exc |-> "none", val |-> v]

Raise(e) == [exc |-> e, val |-> None]

\* `x or []` for a list-or-None argument x
ListOrEmpty(o) == IF o = None THEN << >> ELSE Val(o)

Range(seq) == {seq[k] : k \in 1..Len(seq)}

Reverse(seq) == [k \in 1..Len(seq) |-> seq[Len(seq) + 1 - k]]

RECURSIVE Concat(_)
Concat(seqs) ==
    IF seqs = << >> THEN << >> ELSE Head(seqs) \o Concat(Tail(seqs))

\* the orders in which a set of values can be iterated
Orders(S) ==
    {o \in [1..Cardinality(S) -> S] : Range(o) = S}

-----------------------------------------------------------------------------
(* The external service, as the API wrapper sees it *)

Workspaces ==
    << [gid |-> 1, name |-> "W", resource_type |-> "workspace"] >>

\* projects of a workspace (not archived)
Projects(ws_gid) ==
    IF ws_gid = 1
    THEN << [gid |-> 10, name |-> "P", resource_type |-> "project"] >>
    ELSE << >>

\* the user task list of "me" in a workspace
UserTaskLists == [ws \in {1} |-> 20]

\* sections of a project or user task list; section "B" of project 10 is
\* a duplicate name
Sections ==
    (10 :> << [gid |-> 101, name |-> "A", resource_type |-> "section"],
              [gid |-> 102, name |-> "B", resource_type |-> "section"],
              [gid |-> 103, name |-> "B", resource_type |-> "section"] >>)
    @@
    (20 :> << [gid |-> 201, name |-> "A", resource_type |-> "section"],
              [gid |-> 202, name |-> "C", resource_type |-> "section"] >>)

AllSectionGids ==
    UNION {{e.gid : e \in Range(Sections[c])} : c \in DOMAIN Sections}

\* the container a section belongs to
ProjectOfSection(sect_gid) ==
    CHOOSE c \in DOMAIN Sections :
        sect_gid \in {e.gid : e \in Range(Sections[c])}

\* the tasks of the service; dates are day numbers, datetimes are minutes
\* since day 0 in UTC
Tasks ==
    (1001 :> [name |-> "t1", due_on |-> None, due_at |-> None,
              completed |-> FALSE])
    @@
    (1002 :> [name |-> "t2", due_on |-> Some(3), due_at |-> None,
              completed |-> FALSE])
    @@
    (1003 :> [name |-> "t3", due_on |-> None, due_at |-> None,
              completed |-> FALSE])
    @@
    (2001 :> [name |-> "u1", due_on |-> None, due_at |-> None,
              completed |-> FALSE])
    @@
    (1004 :> [name |-> "t4", due_on |-> None, due_at |-> None,
              completed |-> TRUE])
    @@
    (1005 :> [name |-> "t5", due_on |-> Some(3), due_at |-> None,
              completed |-> TRUE])

InitSectionTasks ==
    (101 :> <<1001, 1002>>) @@ (102 :> <<1003>>) @@ (103 :> << >>)
    @@ (201 :> <<2001>>) @@ (202 :> << >>)

-----------------------------------------------------------------------------
(* asana/client.py.  env is [fault, client_cached]: fault names the API   *)
(* function and the position of the call that the service fails.          *)

NoFault == [fn |-> "none", nth |-> 0]

ApiFunctions ==
    {"get_workspace_gid_from_name", "get_user_task_list_gid",
     "get_project_gid_from_name", "get_section_gids_in_project_or_utl",
     "get_section_gid_from_name", "get_tasks", "move_task_to_section"}

\* the functions a call of the application invokes more than once
RepeatedApiFunctions ==
    {"get_section_gid_from_name", "get_tasks", "move_task_to_section"}

Faults ==
    {NoFault, [fn |-> "_get_client", nth |-> 0]}
    \cup [fn : ApiFunctions, nth : {1}]
    \cup [fn : RepeatedApiFunctions, nth : {2}]

\* _get_client(): the cached client, or a new one from .secrets.conf
_get_client(env) ==
    IF ~env.client_cached /\ env.fault.fn = "_get_client"
    THEN Raise("ClientCreationError")
    ELSE Return("client")

\* the request a wrapper sends with the client it got; the service may
\* fail it, and @asana_error_handler logs the AsanaError and re-raises it
ApiQuery(client, env, fn, nth) ==
    IF client.exc /= "none" THEN client
    ELSE IF env.fault.fn = fn /\ env.fault.nth = nth
         THEN Raise("AsanaError")
         ELSE Return("ok")

\* the part every wrapper shares: get the client, then query the service
ApiCall(env, fn, nth) == ApiQuery(_get_client(env), env, fn, nth)

\* a statement after a call: skipped when the call raised
Then(call, result) == IF call.exc /= "none" THEN call ELSE result

_find_gid_from_name(data, resource_type, name, expected_gid) ==
    LET matches == SelectSeq(data, LAMBDA e :
                        e.resource_type = resource_type /\ e.name = name)
    IN  IF Len(matches) > 1 THEN Raise("DuplicateNameError")
        ELSE IF Len(matches) = 0 THEN Raise("DataNotFoundError")
        ELSE IF expected_gid /= None /\ matches[1].gid /= Val(expected_gid)
             THEN Raise("MismatchedDataError")
        ELSE Return(matches[1].gid)

get_workspace_gid_from_name(env, ws_name, ws_gid) ==
    Then(ApiCall(env, "get_workspace_gid_from_name", 1),
         _find_gid_from_name(Workspaces, "workspace", ws_name, ws_gid))

get_project_gid_from_name(env, ws_gid, proj_name, proj_gid) ==
    Then(ApiCall(env, "get_project_gid_from_name", 1),
         _find_gid_from_name(Projects(ws_gid), "project", proj_name,
                             proj_gid))

\* a container the service does not know is an AsanaError (not found)
get_section_gid_from_name(env, nth, proj_or_utl_gid, sect_name, sect_gid) ==
    Then(ApiCall(env, "get_section_gid_from_name", nth),
         IF proj_or_utl_gid \notin DOMAIN Sections
         THEN Raise("AsanaError")
         ELSE _find_gid_from_name(Sections[proj_or_utl_gid], "section",
                                  sect_name, sect_gid))

get_user_task_list_gid(env, workspace_gid, is_me, user_gid) ==
    IF ~((is_me /\ user_gid = None) \/ (~is_me /\ user_gid /= None))
    THEN Raise("AssertionError")
    ELSE Then(ApiCall(env, "get_user_task_list_gid", 1),
              IF ~is_me \/ workspace_gid \notin DOMAIN UserTaskLists
              THEN Raise("AsanaError")
              ELSE Return(UserTaskLists[workspace_gid]))

get_section_gids_in_project_or_utl(env, proj_or_utl_gid) ==
    Then(ApiCall(env, "get_section_gids_in_project_or_utl", 1),
         IF proj_or_utl_gid \notin DOMAIN Sections
         THEN Raise("AsanaError")
         ELSE Return([k \in 1..Len(Sections[proj_or_utl_gid]) |->
                         Sections[proj_or_utl_gid][k].gid]))

\* the task dicts of a section with gid and the requested opt_fields
get_tasks(env, nth, st, section_gid, fields) ==
    Then(ApiCall(env, "get_tasks", nth),
         IF section_gid \notin DOMAIN st THEN Raise("AsanaError")
         ELSE Return([k \in 1..Len(st[section_gid]) |->
                 [f \in fields \cup {"gid"} |->
                     IF f = "gid" THEN st[section_gid][k]
                     ELSE IF f = "resource_type" THEN "task"
                     ELSE Tasks[st[section_gid][k]][f]]]))

\* sections.add_task_for_section: the task leaves the other sections of
\* the section's project and goes to the top of the section
AddTaskForSection(st, task_gid, sect_gid) ==
    [s \in DOMAIN st |->
        LET others == SelectSeq(st[s], LAMBDA t : t /= task_gid)
        IN  IF s = sect_gid THEN <<task_gid>> \o others
            ELSE IF ProjectOfSection(s) = ProjectOfSection(sect_gid)
                 THEN others
            ELSE st[s]]

\* move_task_to_section(task_gid, sect_gid) with move_to_bottom=False;
\* val is the service's new state
move_task_to_section(env, nth, st, task_gid, sect_gid) ==
    Then(ApiCall(env, "move_task_to_section", nth),
         IF sect_gid = None \/ Val(sect_gid) \notin DOMAIN st
         THEN Raise("AsanaError")
         ELSE Return(AddTaskForSection(st, task_gid, Val(sect_gid))))

-----------------------------------------------------------------------------
(* asana/utils.py and general/utils.py.  A relativedelta is a record of   *)
(* its normalised fields; a timezone-aware datetime is [utc, tz]: the     *)
(* instant in minutes since day 0 and the zone's offset in minutes.       *)

\* the position of the first outcome of a sequence that is a raise, or 0
FirstRaiseAt(outs) ==
    IF \E k \in 1..Len(outs) : outs[k].exc /= "none"
    THEN CHOOSE k \in 1..Len(outs) :
            /\ outs[k].exc /= "none"
            /\ \A j \in 1..(k - 1) : outs[j].exc = "none"
    ELSE 0

\* get_net_include_section_gids without the check of the included gids
\* against the sections of the container
NetIncludeSectionGids_no_missing_check(sects, inc_calls, exc_calls, raise_at, include_sect_gids, exclude_sect_gids, default_to_include) ==
    IF sects.exc /= "none" THEN sects
    ELSE IF raise_at /= 0 THEN (inc_calls \o exc_calls)[raise_at]
    ELSE LET project_section_gids == Range(sects.val)
             include_gids == {c.val : c \in Range(inc_calls)}
                                \cup Range(include_sect_gids)
             exclude_gids == {c.val : c \in Range(exc_calls)}
                                \cup Range(exclude_sect_gids)
         IN  IF include_gids \cap exclude_gids /= {}
             THEN Raise("DataConflictError")
             ELSE IF ~default_to_include
                        \/ (default_to_include /\ include_gids /= {})
             THEN Return(include_gids)
             ELSE Return(project_section_gids \ exclude_gids)

\* get_net_include_section_gids without the check of the included gids
\* against the excluded ones
NetIncludeSectionGids_no_conflict_check(sects, inc_calls, exc_calls, raise_at, include_sect_gids, exclude_sect_gids, default_to_include) ==
    IF sects.exc /= "none" THEN sects
    ELSE IF raise_at /= 0 THEN (inc_calls \o exc_calls)[raise_at]
    ELSE LET project_section_gids == Range(sects.val)
             include_gids == {c.val : c \in Range(inc_calls)}
                                \cup Range(include_sect_gids)
             exclude_gids == {c.val : c \in Range(exc_calls)}
                                \cup Range(exclude_sect_gids)
         IN  IF include_gids \ project_section_gids /= {}
             THEN Raise("DataMissingError")
             ELSE IF ~default_to_include
                        \/ (default_to_include /\ include_gids /= {})
             THEN Return(include_gids \ exclude_gids)
             ELSE Return(project_section_gids \ exclude_gids)

\* get_net_include_section_gids where explicit includes do not override
\* the default: with default_to_include the sections of the container
\* less the excluded ones are returned whatever is included
NetIncludeSectionGids_default_wins(sects, inc_calls, exc_calls, raise_at, include_sect_gids, exclude_sect_gids, default_to_include) ==
    IF sects.exc /= "none" THEN sects
    ELSE IF raise_at /= 0 THEN (inc_calls \o exc_calls)[raise_at]
    ELSE LET project_section_gids == Range(sects.val)
             include_gids == {c.val : c \in Range(inc_calls)}
                                \cup Range(include_sect_gids)
             exclude_gids == {c.val : c \in Range(exc_calls)}
                                \cup Range(exclude_sect_gids)
         IN  IF include_gids \ project_section_gids /= {}
             THEN Raise("DataMissingError")
             ELSE IF include_gids \cap exclude_gids /= {}
             THEN Raise("DataConflictError")
             ELSE IF ~default_to_include
             THEN Return(include_gids)
             ELSE Return(project_section_gids \ exclude_gids)

\* get_net_include_section_gids whose default is every section of the
\* container, the excluded ones too
NetIncludeSectionGids_keep_excluded(sects, inc_calls, exc_calls, raise_at, include_sect_gids, exclude_sect_gids, default_to_include) ==
    IF sects.exc /= "none" THEN sects
    ELSE IF raise_at /= 0 THEN (inc_calls \o exc_calls)[raise_at]
    ELSE LET project_section_gids == Range(sects.val)
             include_gids == {c.val : c \in Range(inc_calls)}
                                \cup Range(include_sect_gids)
             exclude_gids == {c.val : c \in Range(exc_calls)}
                                \cup Range(exclude_sect_gids)
         IN  IF include_gids \ project_section_gids /= {}
             THEN Raise("DataMissingError")
             ELSE IF include_gids \cap exclude_gids /= {}
             THEN Raise("DataConflictError")
             ELSE IF ~default_to_include
                        \/ (default_to_include /\ include_gids /= {})
             THEN Return(include_gids)
             ELSE Return(project_section_gids)

\* get_net_include_section_gids once the service answered: sects is the
\* outcome of get_section_gids_in_project_or_utl, inc_calls and exc_calls
\* the outcomes of get_section_gid_from_name for the included and the
\* excluded names, raise_at the first of them that raised
NetIncludeSectionGids(sects, inc_calls, exc_calls, raise_at, include_sect_gids, exclude_sect_gids, default_to_include) ==
    IF sects.exc /= "none" THEN sects
    ELSE IF raise_at /= 0 THEN (inc_calls \o exc_calls)[raise_at]
    ELSE LET project_section_gids == Range(sects.val)
             include_gids == {c.val : c \in Range(inc_calls)}
                                \cup Range(include_sect_gids)
             exclude_gids == {c.val : c \in Range(exc_calls)}
                                \cup Range(exclude_sect_gids)
         IN  IF include_gids \ project_section_gids /= {}
             THEN Raise("DataMissingError")
             ELSE IF include_gids \cap exclude_gids /= {}
             THEN Raise("DataConflictError")
             ELSE IF ~default_to_include
                        \/ (default_to_include /\ include_gids /= {})
             THEN Return(include_gids)
             ELSE Return(project_section_gids \ exclude_gids)

\* the lookups of a list of section names, the first at position first
SectionGidsFromNames(env, first, proj_or_utl_gid, names) ==
    [k \in 1..Len(names) |->
        get_section_gid_from_name(env, first + k - 1, proj_or_utl_gid,
                                  names[k], None)]

NetIncludeAfterCalls(sects, inc_calls, exc_calls, include_sect_gids, exclude_sect_gids, default_to_include) ==
    NetIncludeSectionGids(sects, inc_calls, exc_calls,
        FirstRaiseAt(inc_calls \o exc_calls), include_sect_gids,
        exclude_sect_gids, default_to_include)

get_net_include_section_gids(env, proj_or_utl_gid, include_sect_names, include_sect_gids, exclude_sect_names, exclude_sect_gids, default_to_include) ==
    NetIncludeAfterCalls(
        get_section_gids_in_project_or_utl(env, proj_or_utl_gid),
        SectionGidsFromNames(env, 1, proj_or_utl_gid,
                             ListOrEmpty(include_sect_names)),
        SectionGidsFromNames(env, Len(ListOrEmpty(include_sect_names)) + 1,
                             proj_or_utl_gid,
                             ListOrEmpty(exclude_sect_names)),
        ListOrEmpty(include_sect_gids), ListOrEmpty(exclude_sect_gids),
        default_to_include)

\* is_date_only() of a relativedelta
is_date_only(dt_var) ==
    dt_var.hours = 0 /\ dt_var.minutes = 0 /\ dt_var.seconds = 0
        /\ dt_var.microseconds = 0

\* dt_base.date(): the calendar day of the instant in its own zone
DateOf(dt_base) == (dt_base.utc + dt_base.tz) \div 1440

\* datetime.combine(date, time, tzinfo) as an instant; a time of day is
\* [minutes, tzinfo], minutes after midnight and its own offset, which the
\* tzinfo argument replaces
Combine(date, time, tz) == date * 1440 + time.minutes - tz

\* operator.ge / operator.le / operator.lt
Compare(op, a, b) ==
    IF op = "ge" THEN a >= b ELSE IF op = "le" THEN a <= b ELSE a < b

\* the assumed time taking precedence over the due_at of the task
DueOfTask_assumed_over_due_at(task, ignore_time, dt_base, time_due_assumed) ==
    IF task["due_on"] = None THEN None
    ELSE IF ignore_time THEN task["due_on"]
    ELSE IF time_due_assumed /= None
         THEN Some(Combine(Val(task["due_on"]), Val(time_due_assumed),
                           dt_base.tz))
    ELSE IF "due_at" \in DOMAIN task /\ task["due_at"] /= None
         THEN task["due_at"]
    ELSE None

\* a date-only window comparing the UTC date of due_at where there is one
DueOfTask_date_of_due_at(task, ignore_time, dt_base, time_due_assumed) ==
    IF task["due_on"] = None THEN None
    ELSE IF "due_at" \in DOMAIN task /\ task["due_at"] /= None
         THEN IF ignore_time THEN Some(Val(task["due_at"]) \div 1440)
              ELSE task["due_at"]
    ELSE IF ignore_time THEN task["due_on"]
    ELSE IF time_due_assumed /= None
         THEN Some(Combine(Val(task["due_on"]), Val(time_due_assumed),
                           dt_base.tz))
    ELSE None

\* the due date or datetime _filter_tasks_by_datetime compares, or None
\* when the task is skipped
DueOfTask(task, ignore_time, dt_base, time_due_assumed) ==
    IF task["due_on"] = None THEN None
    ELSE IF ignore_time THEN task["due_on"]
    ELSE IF "due_at" \in DOMAIN task /\ task["due_at"] /= None
         THEN task["due_at"]
    ELSE IF time_due_assumed /= None
         THEN Some(Combine(Val(task["due_on"]), Val(time_due_assumed),
                           dt_base.tz))
    ELSE None

\* the threshold of a window with a time component taken from the wall
\* clock of dt_base, its zone dropped
_filter_tasks_by_datetime_wall_clock(tasks, dt_base, rel_dt_until_due, op, time_due_assumed) ==
    IF rel_dt_until_due = None THEN tasks
    ELSE LET rel == Val(rel_dt_until_due)
             ignore_time == is_date_only(rel)
             due_threshold ==
                 IF ignore_time THEN DateOf(dt_base) + rel.days
                 ELSE dt_base.utc + dt_base.tz + rel.days * 1440
                        + rel.hours * 60 + rel.minutes
         IN  SelectSeq(tasks, LAMBDA task :
                /\ DueOfTask(task, ignore_time, dt_base,
                             time_due_assumed) /= None
                /\ Compare(op, Val(DueOfTask(task, ignore_time, dt_base,
                                             time_due_assumed)),
                           due_threshold))

_filter_tasks_by_datetime(tasks, dt_base, rel_dt_until_due, op, time_due_assumed) ==
    IF rel_dt_until_due = None THEN tasks
    ELSE LET rel == Val(rel_dt_until_due)
             ignore_time == is_date_only(rel)
             due_threshold ==
                 IF ignore_time THEN DateOf(dt_base) + rel.days
                 ELSE dt_base.utc + rel.days * 1440 + rel.hours * 60
                        + rel.minutes
         IN  SelectSeq(tasks, LAMBDA task :
                /\ DueOfTask(task, ignore_time, dt_base,
                             time_due_assumed) /= None
                /\ Compare(op, Val(DueOfTask(task, ignore_time, dt_base,
                                             time_due_assumed)),
                           due_threshold))

\* the opt_fields get_filtered_tasks asks for
FilteredTaskFields == {"due_at", "due_on", "name", "resource_type"}

\* get_filtered_tasks after its get_tasks call ended with sect_tasks
FilterSectionTasks(sect_tasks, now_with_tz, match_no_due_date, min_time_until_due, max_time_until_due, min_time_due_assumed, max_time_due_assumed) ==
    IF sect_tasks.exc /= "none" THEN sect_tasks
    ELSE IF match_no_due_date
    THEN Return(SelectSeq(sect_tasks.val, LAMBDA t : t["due_on"] = None))
    ELSE Return(_filter_tasks_by_datetime(
            _filter_tasks_by_datetime(sect_tasks.val, now_with_tz,
                min_time_until_due, "ge", min_time_due_assumed),
            now_with_tz, max_time_until_due, "le", max_time_due_assumed))

\* get_filtered_tasks fetching the tasks of the section before it checks
\* its arguments
get_filtered_tasks_fetch_first(env, nth, st, now_with_tz, section_gid, match_no_due_date, min_time_until_due, max_time_until_due, min_time_due_assumed, max_time_due_assumed) ==
    Then(get_tasks(env, nth, st, section_gid, FilteredTaskFields),
         IF match_no_due_date
                = (min_time_until_due /= None \/ max_time_until_due /= None)
         THEN Raise("AssertionError")
         ELSE FilterSectionTasks(
                get_tasks(env, nth, st, section_gid, FilteredTaskFields),
                now_with_tz, match_no_due_date, min_time_until_due,
                max_time_until_due, min_time_due_assumed,
                max_time_due_assumed))

get_filtered_tasks(env, nth, st, now_with_tz, section_gid, match_no_due_date, min_time_until_due, max_time_until_due, min_time_due_assumed, max_time_due_assumed) ==
    IF match_no_due_date
            = (min_time_until_due /= None \/ max_time_until_due /= None)
    THEN Raise("AssertionError")
    ELSE FilterSectionTasks(
            get_tasks(env, nth, st, section_gid, FilteredTaskFields),
            now_with_tz, match_no_due_date, min_time_until_due,
            max_time_until_due, min_time_due_assumed, max_time_due_assumed)

-----------------------------------------------------------------------------
(* rules/rule_meta.py and rules/move_tasks_rule.py *)

\* d[k] = v on a dict
SetKey(d, k, v) == (k :> v) @@ d

\* Rule.__init__: the instance with its validity not yet known
Rule_init(rule_id, rule_type, test_report_only) ==
    [rule_id |-> rule_id, rule_type |-> rule_type,
     test_report_only |-> test_report_only, is_valid |-> None]

\* MoveTasksRule.__init__ with "or" where the code has "^": a project and
\* a user task list given together are accepted
MoveTasksRule_init_or(rule_params, rule_id, rule_type, test_report_only) ==
    LET is_project_given == rule_params["project_name"] /= None
                                \/ rule_params["project_gid"] /= None
        is_user_task_list_given ==
            Truthy(rule_params["is_my_tasks_list"])
                \/ rule_params["user_task_list_gid"] /= None
        is_time_given == rule_params["min_time_until_due_str"] /= None
                            \/ rule_params["max_time_until_due_str"] /= None
        is_time_parsed == rule_params["min_time_until_due"] /= None
                            \/ rule_params["max_time_until_due"] /= None
    IN  IF ~(rule_params["is_my_tasks_list"] = Some(FALSE)
                \/ rule_params["user_task_list_gid"] = None)
        THEN [exc |-> "AssertionError", val |-> Some("utl twice")]
        ELSE IF ~(is_project_given \/ is_user_task_list_given)
        THEN [exc |-> "AssertionError", val |-> Some("project xor utl")]
        ELSE IF ~(rule_params["workspace_name"] /= None
                    \/ rule_params["workspace_gid"] /= None)
        THEN [exc |-> "AssertionError", val |-> Some("workspace")]
        ELSE IF is_time_given /= is_time_parsed
        THEN [exc |-> "AssertionError", val |-> Some("time parse")]
        ELSE IF is_time_given = rule_params["match_no_due_date"]
        THEN [exc |-> "AssertionError", val |-> Some("time xor no due")]
        ELSE Return(Rule_init(rule_id, rule_type, test_report_only)
                        @@ [cls |-> "MoveTasksRule",
                            rule_params |-> rule_params])

\* MoveTasksRule.__init__ without the assertion on the workspace
MoveTasksRule_init_no_workspace(rule_params, rule_id, rule_type, test_report_only) ==
    LET is_project_given == rule_params["project_name"] /= None
                                \/ rule_params["project_gid"] /= None
        is_user_task_list_given ==
            Truthy(rule_params["is_my_tasks_list"])
                \/ rule_params["user_task_list_gid"] /= None
        is_time_given == rule_params["min_time_until_due_str"] /= None
                            \/ rule_params["max_time_until_due_str"] /= None
        is_time_parsed == rule_params["min_time_until_due"] /= None
                            \/ rule_params["max_time_until_due"] /= None
    IN  IF ~(rule_params["is_my_tasks_list"] = Some(FALSE)
                \/ rule_params["user_task_list_gid"] = None)
        THEN [exc |-> "AssertionError", val |-> Some("utl twice")]
        ELSE IF is_project_given = is_user_task_list_given
        THEN [exc |-> "AssertionError", val |-> Some("project xor utl")]
        ELSE IF is_time_given /= is_time_parsed
        THEN [exc |-> "AssertionError", val |-> Some("time parse")]
        ELSE IF is_time_given = rule_params["match_no_due_date"]
        THEN [exc |-> "AssertionError", val |-> Some("time xor no due")]
        ELSE Return(Rule_init(rule_id, rule_type, test_report_only)
                        @@ [cls |-> "MoveTasksRule",
                            rule_params |-> rule_params])

\* MoveTasksRule.__init__ with "or" where the last assertion has "^": a
\* due-date window and match-no-due-date given together are accepted
MoveTasksRule_init_due_or(rule_params, rule_id, rule_type, test_report_only) ==
    LET is_project_given == rule_params["project_name"] /= None
                                \/ rule_params["project_gid"] /= None
        is_user_task_list_given ==
            Truthy(rule_params["is_my_tasks_list"])
                \/ rule_params["user_task_list_gid"] /= None
        is_time_given == rule_params["min_time_until_due_str"] /= None
                            \/ rule_params["max_time_until_due_str"] /= None
        is_time_parsed == rule_params["min_time_until_due"] /= None
                            \/ rule_params["max_time_until_due"] /= None
    IN  IF ~(rule_params["is_my_tasks_list"] = Some(FALSE)
                \/ rule_params["user_task_list_gid"] = None)
        THEN [exc |-> "AssertionError", val |-> Some("utl twice")]
        ELSE IF is_project_given = is_user_task_list_given
        THEN [exc |-> "AssertionError", val |-> Some("project xor utl")]
        ELSE IF ~(rule_params["workspace_name"] /= None
                    \/ rule_params["workspace_gid"] /= None)
        THEN [exc |-> "AssertionError", val |-> Some("workspace")]
        ELSE IF is_time_given /= is_time_parsed
        THEN [exc |-> "AssertionError", val |-> Some("time parse")]
        ELSE IF ~(is_time_given \/ rule_params["match_no_due_date"])
        THEN [exc |-> "AssertionError", val |-> Some("time xor no due")]
        ELSE Return(Rule_init(rule_id, rule_type, test_report_only)
                        @@ [cls |-> "MoveTasksRule",
                            rule_params |-> rule_params])

\* MoveTasksRule.__init__: val is the new instance, or the message of the
\* assertion that failed
MoveTasksRule_init(rule_params, rule_id, rule_type, test_report_only) ==
    LET is_project_given == rule_params["project_name"] /= None
                                \/ rule_params["project_gid"] /= None
        is_user_task_list_given ==
            Truthy(rule_params["is_my_tasks_list"])
                \/ rule_params["user_task_list_gid"] /= None
        is_time_given == rule_params["min_time_until_due_str"] /= None
                            \/ rule_params["max_time_until_due_str"] /= None
        is_time_parsed == rule_params["min_time_until_due"] /= None
                            \/ rule_params["max_time_until_due"] /= None
    IN  IF ~(rule_params["is_my_tasks_list"] = Some(FALSE)
                \/ rule_params["user_task_list_gid"] = None)
        THEN [exc |-> "AssertionError", val |-> Some("utl twice")]
        ELSE IF is_project_given = is_user_task_list_given
        THEN [exc |-> "AssertionError", val |-> Some("project xor utl")]
        ELSE IF ~(rule_params["workspace_name"] /= None
                    \/ rule_params["workspace_gid"] /= None)
        THEN [exc |-> "AssertionError", val |-> Some("workspace")]
        ELSE IF is_time_given /= is_time_parsed
        THEN [exc |-> "AssertionError", val |-> Some("time parse")]
        ELSE IF is_time_given = rule_params["match_no_due_date"]
        THEN [exc |-> "AssertionError", val |-> Some("time xor no due")]
        ELSE Return(Rule_init(rule_id, rule_type, test_report_only)
                        @@ [cls |-> "MoveTasksRule",
                            rule_params |-> rule_params])

\* the exceptions _sync_and_validate_with_api catches
SyncCaught ==
    {"AsanaError", "ClientCreationError", "DataNotFoundError",
     "DuplicateNameError", "MismatchedDataError", "DataConflictError",
     "DataMissingError"}

\* a step of the try block stores what its call returned: st is
\* [rps, exc, called], r the outcome of the call, key the parameter set
StoreGid(st, key, r) ==
    [rps |-> IF r.exc = "none" THEN SetKey(st.rps, key, Some(r.val))
             ELSE st.rps,
     exc |-> r.exc, called |-> TRUE]

StoreProjectGid(st, r) ==
    [rps |-> IF r.exc = "none"
             THEN SetKey(SetKey(st.rps, "project_gid", Some(r.val)),
                         "effective_project_gid", Some(r.val))
             ELSE st.rps,
     exc |-> r.exc, called |-> TRUE]

\* the destination section left out of the source sections
StoreSrcSections_without_dst(st, r) ==
    [rps |-> IF r.exc = "none"
             THEN SetKey(st.rps, "src_net_include_section_gids",
                         r.val \ st.rps["dst_section_gid"])
             ELSE st.rps,
     exc |-> r.exc, called |-> TRUE]

StoreSrcSections(st, r) ==
    [rps |-> IF r.exc = "none"
             THEN SetKey(st.rps, "src_net_include_section_gids", r.val)
             ELSE st.rps,
     exc |-> r.exc, called |-> TRUE]

\* the steps of the try block in order; a step after a raise does nothing
SyncWorkspace(env, st) ==
    IF st.exc /= "none" \/ st.rps["workspace_name"] = None THEN st
    ELSE StoreGid(st, "workspace_gid",
            get_workspace_gid_from_name(env, Val(st.rps["workspace_name"]),
                                        st.rps["workspace_gid"]))

SyncUserTaskList(env, st) ==
    IF st.exc /= "none" \/ ~Truthy(st.rps["is_my_tasks_list"]) THEN st
    ELSE StoreGid(st, "user_task_list_gid",
            get_user_task_list_gid(env, Val(st.rps["workspace_gid"]), TRUE,
                                   None))

SyncProject(env, st) ==
    IF st.exc /= "none" THEN st
    ELSE IF st.rps["project_name"] /= None
    THEN StoreProjectGid(st,
            get_project_gid_from_name(env, Val(st.rps["workspace_gid"]),
                Val(st.rps["project_name"]), st.rps["project_gid"]))
    ELSE IF st.rps["user_task_list_gid"] /= None
    THEN [st EXCEPT !.rps = SetKey(st.rps, "effective_project_gid",
                                   st.rps["user_task_list_gid"])]
    ELSE st

SyncSrcSections(env, st) ==
    IF st.exc /= "none" THEN st
    ELSE IF "effective_project_gid" \notin DOMAIN st.rps
    THEN [st EXCEPT !.exc = "KeyError"]
    ELSE StoreSrcSections(st,
            get_net_include_section_gids(env,
                Val(st.rps["effective_project_gid"]),
                st.rps["src_sections_include_names"],
                st.rps["src_sections_include_gids"],
                st.rps["src_sections_exclude_names"],
                st.rps["src_sections_exclude_gids"], TRUE))

SyncDstSection(env, st) ==
    IF st.exc /= "none" \/ st.rps["dst_section_name"] = None THEN st
    ELSE StoreGid(st, "dst_section_gid",
            get_section_gid_from_name(env,
                Len(ListOrEmpty(st.rps["src_sections_include_names"]))
                  + Len(ListOrEmpty(st.rps["src_sections_exclude_names"]))
                  + 1,
                Val(st.rps["effective_project_gid"]),
                Val(st.rps["dst_section_name"]),
                st.rps["dst_section_gid"]))

\* the end of the try block: True, or False for a caught exception; any
\* other exception leaves the method
SyncResult(st) ==
    [rps |-> st.rps, called |-> st.called,
     out |-> IF st.exc = "none" THEN Return(Some(TRUE))
             ELSE IF st.exc \in SyncCaught THEN Return(Some(FALSE))
             ELSE Raise(st.exc)]

\* MoveTasksRule._sync_and_validate_with_api: out is what the call
\* returned or raised, rps the parameters as the call left them
_sync_and_validate_with_api(env, rps) ==
    SyncResult(SyncDstSection(env, SyncSrcSections(env, SyncProject(env,
        SyncUserTaskList(env, SyncWorkspace(env,
            [rps |-> rps, exc |-> "none", called |-> FALSE]))))))

\* BlankRule._sync_and_validate_with_api of the tests' blank rule class
BlankRule_sync_and_validate_with_api(rps) ==
    [rps |-> rps, called |-> FALSE, out |-> Return(Some(TRUE))]

\* self._is_valid = self._sync_and_validate_with_api(), which ended with s;
\* a raise leaves _is_valid as it was
CacheValidity(rule, s) ==
    [rule |-> IF s.out.exc = "none"
              THEN [rule EXCEPT !.rule_params = s.rps,
                                !.is_valid = s.out.val]
              ELSE [rule EXCEPT !.rule_params = s.rps],
     out |-> s.out, synced |-> TRUE, sync_out |-> s.out,
     called |-> s.called]

\* is_valid without "if self._is_valid is None": every call synchronizes
is_valid_uncached(env, rule) ==
    CacheValidity(rule,
        IF rule.cls = "BlankRule"
        THEN BlankRule_sync_and_validate_with_api(rule.rule_params)
        ELSE _sync_and_validate_with_api(env, rule.rule_params))

\* Rule.is_valid: rule is the instance as the call left it, synced tells
\* whether _sync_and_validate_with_api was invoked
is_valid(env, rule) ==
    IF rule.is_valid = None
    THEN CacheValidity(rule,
            IF rule.cls = "BlankRule"
            THEN BlankRule_sync_and_validate_with_api(rule.rule_params)
            ELSE _sync_and_validate_with_api(env, rule.rule_params))
    ELSE [rule |-> rule, out |-> Return(rule.is_valid), synced |-> FALSE,
          sync_out |-> Return(None), called |-> FALSE]

\* Rule.is_criteria_met: no criteria
Rule_is_criteria_met(rule) == TRUE

\* is_criteria_met as the tests of execute() patch it: a rule whose
\* parameters hold the key mock_fail_is_criteria_met does not meet its
\* criteria, any other rule behaves as Rule.is_criteria_met
is_criteria_met(rule) ==
    IF "mock_fail_is_criteria_met" \in DOMAIN rule.rule_params
    THEN FALSE
    ELSE Rule_is_criteria_met(rule)

\* the loop over tasks_to_move[::-1] from its k-th task on: moved are the
\* tasks move_task_to_section was called for, logged the ones reported
RECURSIVE MoveLoop(_, _, _, _, _, _)
MoveLoop(env, k, st, tasks, dst_section_gid, report_only) ==
    IF k > Len(tasks)
    THEN [st |-> st, moved |-> << >>, logged |-> << >>, exc |-> "none"]
    ELSE IF report_only
    THEN LET rest == MoveLoop(env, k + 1, st, tasks, dst_section_gid,
                              report_only)
         IN  [rest EXCEPT !.logged = <<tasks[k]["gid"]>> \o @]
    ELSE LET r == move_task_to_section(env, k, st, tasks[k]["gid"],
                                       dst_section_gid)
         IN  IF r.exc /= "none"
             THEN [st |-> st, moved |-> <<tasks[k]["gid"]>>,
                   logged |-> << >>, exc |-> r.exc]
             ELSE LET rest == MoveLoop(env, k + 1, r.val, tasks,
                                       dst_section_gid, report_only)
                  IN  [rest EXCEPT !.moved = <<tasks[k]["gid"]>> \o @]

\* what execute() did when it stopped before fetching anything
NoWork(v, st, out, criteria_ret) ==
    [rule |-> v.rule, st |-> st, out |-> out, synced |-> v.synced,
     sync_out |-> v.sync_out, called |-> v.called,
     valid_ret |-> IF v.out.exc = "none" THEN v.out.val ELSE None,
     criteria_ret |-> criteria_ret,
     fetched |-> << >>, to_move |-> << >>, moved |-> << >>,
     logged |-> << >>]

\* the end of execute() after the loop over tasks_to_move ended with m;
\* to_move are the gids of tasks_to_move as the first loop left it
ExecuteMoved(v, order, tasks_to_move, m) ==
    [rule |-> v.rule, st |-> m.st,
     out |-> IF m.exc = "none" THEN Return(None) ELSE Raise(m.exc),
     synced |-> v.synced, sync_out |-> v.sync_out,
     called |-> v.called \/ order /= << >>,
     valid_ret |-> v.out.val, criteria_ret |-> Some(TRUE),
     fetched |-> order,
     to_move |-> [k \in 1..Len(tasks_to_move) |-> tasks_to_move[k]["gid"]],
     moved |-> m.moved, logged |-> m.logged]

\* the second loop of execute() going over tasks_to_move from its first
\* task to its last
ExecuteMoving_fetch_order(env, v, order, tasks_to_move, report_only, st) ==
    ExecuteMoved(v, order, tasks_to_move,
        MoveLoop(env, 1, st, tasks_to_move,
                 v.rule.rule_params["dst_section_gid"], report_only))

\* the second loop of execute(): for task in tasks_to_move[::-1]
ExecuteMoving(env, v, order, tasks_to_move, report_only, st) ==
    ExecuteMoved(v, order, tasks_to_move,
        MoveLoop(env, 1, st, Reverse(tasks_to_move),
                 v.rule.rule_params["dst_section_gid"], report_only))

\* execute() after the loop over the source sections: fetches are the
\* outcomes of get_filtered_tasks, raise_at the first that raised (0: none)
ExecuteFetched(env, v, fetches, raise_at, report_only, st, order) ==
    IF raise_at /= 0
    THEN [NoWork(v, st, fetches[raise_at], Some(TRUE))
            EXCEPT !.fetched = SubSeq(order, 1, raise_at),
                   !.called = TRUE]
    ELSE ExecuteMoving(env, v, order,
            Concat([k \in 1..Len(order) |-> fetches[k].val]),
            report_only, st)

\* the service after the tasks of a fetch were moved to the top of sect,
\* the last of them first
RECURSIVE MovedToSection(_, _, _)
MovedToSection(st, tasks, sect) ==
    IF tasks = << >> THEN st
    ELSE AddTaskForSection(
            MovedToSection(st, Tail(tasks), sect), Head(tasks)["gid"], sect)

\* one loop that fetches a source section and moves its tasks before it
\* fetches the next section
RECURSIVE FetchSections_between_moves_from(_, _, _, _, _, _)
FetchSectionThenMove(env, rps, st, now, order, k, fetch) ==
    <<fetch>> \o FetchSections_between_moves_from(env, rps,
                    IF fetch.exc = "none"
                    THEN MovedToSection(st, fetch.val,
                                        Val(rps["dst_section_gid"]))
                    ELSE st,
                    now, order, k + 1)

FetchSections_between_moves_from(env, rps, st, now, order, k) ==
    IF k > Len(order) THEN << >>
    ELSE FetchSectionThenMove(env, rps, st, now, order, k,
            get_filtered_tasks(env, k, st, now, order[k],
                rps["match_no_due_date"],
                rps["min_time_until_due"], rps["max_time_until_due"],
                rps["min_due_assumed_time"], rps["max_due_assumed_time"]))

FetchSections_between_moves(env, rps, st, now, order) ==
    FetchSections_between_moves_from(env, rps, st, now, order, 1)

\* tasks_to_move.extend(autils.get_filtered_tasks(...)) per source section
FetchSections(env, rps, st, now, order) ==
    [k \in 1..Len(order) |->
        get_filtered_tasks(env, k, st, now, order[k],
            rps["match_no_due_date"],
            rps["min_time_until_due"], rps["max_time_until_due"],
            rps["min_due_assumed_time"], rps["max_due_assumed_time"])]

ExecuteFetching(env, v, fetches, report_only, st, order) ==
    ExecuteFetched(env, v, fetches, FirstRaiseAt(fetches), report_only, st,
                   order)

\* execute() with "if not self.is_valid(): return": the criteria are not
\* asked
ExecuteValidated_no_criteria(env, v, force_test_report_only, st, now, order) ==
    IF v.out.exc /= "none" THEN NoWork(v, st, v.out, None)
    ELSE IF ~Truthy(v.out.val) THEN NoWork(v, st, Return(None), None)
    ELSE [ExecuteFetching(env, v,
            FetchSections(env, v.rule.rule_params, st, now, order),
            Truthy(v.rule.test_report_only) \/ force_test_report_only,
            st, order)
          EXCEPT !.criteria_ret = Some(is_criteria_met(v.rule))]

\* execute() with "if self._test_report_only:": the caller's override is
\* not looked at
ExecuteValidated_own_flag(env, v, force_test_report_only, st, now, order) ==
    IF v.out.exc /= "none" THEN NoWork(v, st, v.out, None)
    ELSE IF ~Truthy(v.out.val) THEN NoWork(v, st, Return(None), None)
    ELSE IF ~is_criteria_met(v.rule)
    THEN NoWork(v, st, Return(None), Some(FALSE))
    ELSE ExecuteFetching(env, v,
            FetchSections(env, v.rule.rule_params, st, now, order),
            Truthy(v.rule.test_report_only), st, order)

\* execute() with "if self._test_report_only is not False or ...": a rule
\* whose flag is None only reports
ExecuteValidated_none_is_dry(env, v, force_test_report_only, st, now, order) ==
    IF v.out.exc /= "none" THEN NoWork(v, st, v.out, None)
    ELSE IF ~Truthy(v.out.val) THEN NoWork(v, st, Return(None), None)
    ELSE IF ~is_criteria_met(v.rule)
    THEN NoWork(v, st, Return(None), Some(FALSE))
    ELSE ExecuteFetching(env, v,
            FetchSections(env, v.rule.rule_params, st, now, order),
            v.rule.test_report_only /= Some(FALSE)
                \/ force_test_report_only,
            st, order)

\* execute() after its call of is_valid() ended with v
ExecuteValidated(env, v, force_test_report_only, st, now, order) ==
    IF v.out.exc /= "none" THEN NoWork(v, st, v.out, None)
    ELSE IF ~Truthy(v.out.val) THEN NoWork(v, st, Return(None), None)
    ELSE IF ~is_criteria_met(v.rule)
    THEN NoWork(v, st, Return(None), Some(FALSE))
    ELSE ExecuteFetching(env, v,
            FetchSections(env, v.rule.rule_params, st, now, order),
            Truthy(v.rule.test_report_only) \/ force_test_report_only,
            st, order)

\* MoveTasksRule.execute.  order is the order in which the set
\* src_net_include_section_gids is iterated, now is datetime.now() with
\* the local zone.
MoveTasksRule_execute(env, rule, force_test_report_only, st, now, order) ==
    ExecuteValidated(env, is_valid(env, rule), force_test_report_only, st,
                     now, order)

\* execute() of the blank rules the tests of execute_rules() run
BlankRule_execute(rule, force_test_report_only, st) ==
    [rule |-> rule, st |-> st,
     out |-> IF rule.rule_type = "bad-rule-type" THEN Return(Some(FALSE))
             ELSE Return(Some(TRUE)),
     synced |-> FALSE, sync_out |-> Return(None), called |-> FALSE,
     valid_ret |-> None, criteria_ret |-> None, fetched |-> << >>,
     to_move |-> << >>, moved |-> << >>,
     logged |-> IF rule.rule_type /= "bad-rule-type"
                    /\ force_test_report_only
                THEN <<rule.rule_id>> ELSE << >>]

\* rule.execute(force_test_report_only), by the class of the rule
execute(env, rule, force_test_report_only, st, now, order) ==
    IF rule.cls = "BlankRule"
    THEN BlankRule_execute(rule, force_test_report_only, st)
    ELSE MoveTasksRule_execute(env, rule, force_test_report_only, st, now,
                               order)

\* the orders in which a set of section gids can be iterated
SourceOrders(cls, rps) ==
    IF cls /= "BlankRule" /\ "src_net_include_section_gids" \in DOMAIN rps
    THEN Orders(rps["src_net_include_section_gids"])
    ELSE {<< >>}

\* the iteration orders of the source sections execute() would meet
ExecuteOrders(env, rule) ==
    SourceOrders(rule.cls, is_valid(env, rule).rule.rule_params)

-----------------------------------------------------------------------------
(* rules/rules.py: execute_rules.  The frame holds the loop's position i, *)
(* any_errors and, once the call returned, its result.                    *)

IdleRunner ==
    [status |-> "idle", i |-> 0, force |-> FALSE, any_errors |-> Some(FALSE),
     result |-> None, exec_log |-> << >>]

\* the loop body with "if not rule.execute(...): return False": the first
\* rule that reports failure ends the loop
execute_rules_body_short_circuit(fr, out) ==
    IF out.exc /= "none"
    THEN [fr EXCEPT !.status = "raised",
                    !.exec_log = Append(@, [idx |-> fr.i, force |-> fr.force,
                                            out |-> out])]
    ELSE IF ~Truthy(out.val)
    THEN [fr EXCEPT !.status = "returned", !.result = Some(FALSE),
                    !.i = @ + 1,
                    !.exec_log = Append(@, [idx |-> fr.i, force |-> fr.force,
                                            out |-> out])]
    ELSE [fr EXCEPT !.i = @ + 1,
                    !.exec_log = Append(@, [idx |-> fr.i, force |-> fr.force,
                                            out |-> out])]

\* the loop body after rule.execute(force_test_report_only) ended with out:
\* an exception leaves execute_rules, a value is or-ed into any_errors
execute_rules_body(fr, out) ==
    IF out.exc /= "none"
    THEN [fr EXCEPT !.status = "raised",
                    !.exec_log = Append(@, [idx |-> fr.i, force |-> fr.force,
                                            out |-> out])]
    ELSE [fr EXCEPT !.any_errors = PyOr(out.val, fr.any_errors),
                    !.i = @ + 1,
                    !.exec_log = Append(@, [idx |-> fr.i, force |-> fr.force,
                                            out |-> out])]

\* return not any_errors
execute_rules_return(fr) ==
    [fr EXCEPT !.status = "returned", !.result = Some(~Truthy(fr.any_errors))]

-----------------------------------------------------------------------------
(* Inputs *)

MaxCalls == 2

MaxRules == 2

\* relativedelta(days=d, hours=h, minutes=m)
RelDelta(d, h, m) ==
    [days |-> d, hours |-> h, minutes |-> m, seconds |-> 0,
     microseconds |-> 0]

\* dt.time(hour, minute) with minutes = 60 * hour + minute
Time(minutes) == [minutes |-> minutes, tzinfo |-> None]

\* datetime.now().astimezone(): day 2 at 01:00 in UTC, and day 3 at 01:00
\* UTC seen from a zone two hours behind, where it is still day 2
Nows == {[utc |-> 2940, tz |-> 0], [utc |-> 4380, tz |-> -120]}

TargetInputs ==
    [project_name : {None, Some("P"), Some("Z")},
     project_gid : {None, Some(10)},
     is_my_tasks_list : {None, Some(FALSE), Some(TRUE)},
     user_task_list_gid : {None, Some(20)}]

WorkspaceInputs ==
    [workspace_name : {None, Some("W")}, workspace_gid : {None, Some(1)}]

NoDueDate ==
    [match_no_due_date |-> TRUE,
     min_time_until_due_str |-> None, min_time_until_due |-> None,
     max_time_until_due_str |-> None, max_time_until_due |-> None,
     min_due_assumed_time_str |-> None, min_due_assumed_time |-> None,
     max_due_assumed_time_str |-> None, max_due_assumed_time |-> None]

\* every combination of the due-date keys the constructor looks at
DueInputs ==
    {[NoDueDate EXCEPT !["match_no_due_date"] = m,
                       !["min_time_until_due_str"] = ns,
                       !["min_time_until_due"] = n,
                       !["max_time_until_due_str"] = xs,
                       !["max_time_until_due"] = x] :
        m \in BOOLEAN,
        ns \in {None, Some("1d")}, n \in {None, Some(RelDelta(1, 0, 0))},
        xs \in {None, Some("2h")}, x \in {None, Some(RelDelta(0, 2, 0))}}

\* the due-date modes of the rules that are run: no due date, due from
\* tomorrow on, due within two hours
DueModes ==
    {NoDueDate,
     [NoDueDate EXCEPT !["match_no_due_date"] = FALSE,
                       !["min_time_until_due_str"] = Some("1d"),
                       !["min_time_until_due"] = Some(RelDelta(1, 0, 0))],
     [NoDueDate EXCEPT !["match_no_due_date"] = FALSE,
                       !["max_time_until_due_str"] = Some("2h"),
                       !["max_time_until_due"] = Some(RelDelta(0, 2, 0))]}

AllSections ==
    [src_sections_include_names |-> None, src_sections_include_gids |-> None,
     src_sections_exclude_names |-> None, src_sections_exclude_gids |-> None]

\* all sections; one included; one excluded; a section included by name
\* and excluded by gid; a section included that does not exist
SourceInputs ==
    {AllSections,
     [AllSections EXCEPT !["src_sections_include_gids"] = Some(<<101>>)],
     [AllSections EXCEPT !["src_sections_exclude_gids"] = Some(<<103>>)],
     [AllSections EXCEPT !["src_sections_include_names"] = Some(<<"A">>),
                         !["src_sections_exclude_gids"] = Some(<<101>>)],
     [AllSections EXCEPT !["src_sections_include_gids"] = Some(<<999>>)]}

\* by gid; by a unique name; by a duplicate name; by a name with the gid
\* of another section
DestinationInputs ==
    {[dst_section_name |-> None, dst_section_gid |-> Some(102)],
     [dst_section_name |-> Some("A"), dst_section_gid |-> None],
     [dst_section_name |-> Some("B"), dst_section_gid |-> None],
     [dst_section_name |-> Some("A"), dst_section_gid |-> Some(102)]}

\* the rule_params dict load_specific_from_conf builds
RuleParams(target, workspace, due, source, destination) ==
    target @@ workspace @@ due @@ source @@ destination

ProjectByNameAndGid ==
    [project_name |-> Some("P"), project_gid |-> Some(10),
     is_my_tasks_list |-> None, user_task_list_gid |-> None]

MyTasksList ==
    [project_name |-> None, project_gid |-> None,
     is_my_tasks_list |-> Some(TRUE), user_task_list_gid |-> None]

WorkspaceByGid == [workspace_name |-> None, workspace_gid |-> Some(1)]

DestinationByGid == [dst_section_name |-> None, dst_section_gid |-> Some(102)]

\* what a constructor call gives: the instances of the accepted inputs
Constructed(params, test_report_onlys) ==
    {MoveTasksRule_init(rp, "rule", "move tasks", tro).val :
        rp \in {q \in params :
                    MoveTasksRule_init(q, "rule", "move tasks",
                                       None).exc = "none"},
        tro \in test_report_onlys}

\* rules that differ in what _sync_and_validate_with_api has to resolve
SyncRules ==
    Constructed({RuleParams(t, w, NoDueDate, s, x) :
                    t \in TargetInputs, w \in WorkspaceInputs,
                    s \in SourceInputs, x \in DestinationInputs},
                {Some(FALSE)})

\* rules that differ in what execute() has to do
ExecuteRules ==
    Constructed({RuleParams(t, WorkspaceByGid, d, s, DestinationByGid) :
                    t \in {ProjectByNameAndGid, MyTasksList},
                    d \in DueModes,
                    s \in {AllSections,
                           [AllSections EXCEPT
                               !["src_sections_include_gids"] =
                                   Some(<<101>>)]}},
                {None, Some(FALSE), Some(TRUE)})

\* a rule as the tests of execute() make it fail its criteria
WithFailingCriteria(rule) ==
    [rule EXCEPT !.rule_params =
        SetKey(@, "mock_fail_is_criteria_met", TRUE)]

LifecycleRules ==
    SyncRules \cup ExecuteRules
        \cup {WithFailingCriteria(r) : r \in ExecuteRules}

\* the blank rules of the tests of execute_rules(): one that succeeds
\* and one that fails
BlankRule(rule_id, rule_type, test_report_only) ==
    Rule_init(rule_id, rule_type, test_report_only)
        @@ [cls |-> "BlankRule", rule_params |-> << >>]

\* the rules the runner is given: blank rules, a valid live rule on a
\* project, a dry-run rule on a user task list, a rule whose destination
\* name is a duplicate and a rule whose project is given by gid only
RunnerRules ==
    {BlankRule("blank-rule-id-1", "good-rule-type", Some(FALSE)),
     BlankRule("blank-rule-id-3", "bad-rule-type", Some(TRUE))}
    \cup Constructed(
        {RuleParams(ProjectByNameAndGid, WorkspaceByGid, NoDueDate,
                    AllSections, DestinationByGid),
         RuleParams(ProjectByNameAndGid, WorkspaceByGid, NoDueDate,
                    AllSections,
                    [dst_section_name |-> Some("B"),
                     dst_section_gid |-> None]),
         RuleParams([ProjectByNameAndGid EXCEPT !["project_name"] = None],
                    WorkspaceByGid, NoDueDate, AllSections,
                    DestinationByGid)},
        {Some(FALSE)})
    \cup Constructed(
        {RuleParams(MyTasksList, WorkspaceByGid, NoDueDate, AllSections,
                    [dst_section_name |-> None,
                     dst_section_gid |-> Some(202)])},
        {Some(TRUE)})

RuleLists ==
    UNION {[1..n -> RunnerRules] : n \in 0..MaxRules}

\* the dicts a constructor call may be given
CtorInputs ==
    {RuleParams(t, w, d, AllSections, DestinationByGid) :
        t \in TargetInputs, w \in WorkspaceInputs, d \in DueInputs}

-----------------------------------------------------------------------------
(* State *)

NoLast ==
    [op |-> "none", idx |-> 0, force |-> FALSE, out |-> Return(None),
     synced |-> FALSE, sync_out |-> Return(None), valid_ret |-> None,
     criteria_ret |-> None, fetched |-> << >>, to_move |-> << >>,
     moved |-> << >>, logged |-> << >>]

NoCtor ==
    [status |-> "none", rule_params |-> << >>, message |-> None]

NoCall ==
    [fn |-> "none", status |-> "none", args |-> << >>, out |-> Return(None)]

\* what a call of execute() on rule idx did
LastExecute(idx, force, r) ==
    [op |-> "execute", idx |-> idx, force |-> force, out |-> r.out,
     synced |-> r.synced, sync_out |-> r.sync_out,
     valid_ret |-> r.valid_ret, criteria_ret |-> r.criteria_ret,
     fetched |-> r.fetched, to_move |-> r.to_move, moved |-> r.moved,
     logged |-> r.logged]

\* _get_client caches the client the first time it creates one
ClientCachedAfter(env, called) ==
    env.client_cached \/ (called /\ env.fault.fn /= "_get_client")

InitCommon ==
    /\ section_tasks = InitSectionTasks
    /\ client_cached = FALSE
    /\ ncalls = 0
    /\ last = NoLast
    /\ runner = IdleRunner

\* one constructed rule, no call made on it yet
Init ==
    /\ InitCommon
    /\ rules \in {<<r>> : r \in LifecycleRules}
    /\ sync_count = <<0>>
    /\ ctor = NoCtor
    /\ fn_call = NoCall

\* what the service and the client cache do during one call
Env(fault) == [fault |-> fault, client_cached |-> client_cached]

\* rules[i].is_valid() ended with v
IsValidReturn(i, env, v) ==
    /\ rules' = [rules EXCEPT ![i] = v.rule]
    /\ sync_count' = [sync_count EXCEPT ![i] = IF v.synced THEN @ + 1 ELSE @]
    /\ client_cached' = ClientCachedAfter(env, v.called)
    /\ ncalls' = ncalls + 1
    /\ last' = [NoLast EXCEPT !.op = "is_valid", !.idx = i,
                    !.out = v.out, !.synced = v.synced,
                    !.sync_out = v.sync_out,
                    !.valid_ret = IF v.out.exc = "none" THEN v.out.val
                                  ELSE None]
    /\ UNCHANGED <<section_tasks, runner, ctor, fn_call>>

\* a caller invokes rules[i].is_valid()
IsValidCall(i, fault) ==
    /\ runner.status = "idle"
    /\ ncalls < MaxCalls
    /\ IsValidReturn(i, Env(fault), is_valid(Env(fault), rules[i]))

\* rules[i].execute(force) ended with r
ExecuteReturn(i, force, env, r) ==
    /\ rules' = [rules EXCEPT ![i] = r.rule]
    /\ section_tasks' = r.st
    /\ sync_count' = [sync_count EXCEPT ![i] = IF r.synced THEN @ + 1 ELSE @]
    /\ client_cached' = ClientCachedAfter(env, r.called)
    /\ last' = LastExecute(i, force, r)

\* a caller invokes rules[i].execute(force)
ExecuteCall(i, force, fault, now) ==
    /\ runner.status = "idle"
    /\ ncalls < MaxCalls
    /\ \E order \in ExecuteOrders(Env(fault), rules[i]) :
            ExecuteReturn(i, force, Env(fault),
                execute(Env(fault), rules[i], force, section_tasks, now,
                        order))
    /\ ncalls' = ncalls + 1
    /\ UNCHANGED <<runner, ctor, fn_call>>

Next ==
    \/ \E i \in 1..Len(rules), fault \in Faults : IsValidCall(i, fault)
    \/ \E i \in 1..Len(rules), force \in BOOLEAN, fault \in Faults,
            now \in Nows :
                ExecuteCall(i, force, fault, now)

Spec == Init /\ [][Next]_vars

-----------------------------------------------------------------------------
(* rules.execute_rules(rules, force_test_report_only) over a list of rules *)

InitRunner ==
    /\ InitCommon
    /\ rules \in RuleLists
    /\ sync_count = [i \in 1..Len(rules) |-> 0]
    /\ ctor = NoCtor
    /\ fn_call = NoCall

\* main calls execute_rules(rules, force)
ExecuteRulesBegin(force) ==
    /\ runner.status = "idle"
    /\ runner' = [IdleRunner EXCEPT !.status = "running", !.i = 1,
                                    !.force = force]
    /\ UNCHANGED <<rules, section_tasks, client_cached, sync_count, ncalls,
                   last, ctor, fn_call>>

\* the loop body once rule.execute(force) ended with r
ExecuteRulesIterReturn(env, r) ==
    /\ ExecuteReturn(runner.i, runner.force, env, r)
    /\ runner' = execute_rules_body(runner, r.out)

\* one iteration of the loop over rules
ExecuteRulesIter(fault, now) ==
    /\ runner.status = "running"
    /\ runner.i <= Len(rules)
    /\ \E order \in ExecuteOrders(Env(fault), rules[runner.i]) :
            ExecuteRulesIterReturn(Env(fault),
                execute(Env(fault), rules[runner.i], runner.force,
                        section_tasks, now, order))
    /\ UNCHANGED <<ncalls, ctor, fn_call>>

\* the loop is over: return not any_errors
ExecuteRulesReturn ==
    /\ runner.status = "running"
    /\ runner.i > Len(rules)
    /\ runner' = execute_rules_return(runner)
    /\ UNCHANGED <<rules, section_tasks, client_cached, sync_count, ncalls,
                   last, ctor, fn_call>>

NextRunner ==
    \/ \E force \in BOOLEAN : ExecuteRulesBegin(force)
    \/ \E fault \in Faults, now \in Nows : ExecuteRulesIter(fault, now)
    \/ ExecuteRulesReturn

SpecRunner == InitRunner /\ [][NextRunner]_vars

-----------------------------------------------------------------------------
(* MoveTasksRule(rule_params, **kwargs) over the dicts it may be given *)

InitCtor ==
    /\ InitCommon
    /\ rules = << >>
    /\ sync_count = << >>
    /\ ctor \in {[status |-> "pending", rule_params |-> rp,
                   message |-> None] : rp \in CtorInputs}
    /\ fn_call = NoCall

\* the constructor call ended with out: an instance or an AssertionError
ConstructReturn(out) ==
    /\ ctor' = [ctor EXCEPT
                    !.status = IF out.exc = "none" THEN "constructed"
                               ELSE out.exc,
                    !.message = IF out.exc = "none" THEN None ELSE out.val]
    /\ rules' = IF out.exc = "none" THEN <<out.val>> ELSE << >>
    /\ sync_count' = IF out.exc = "none" THEN <<0>> ELSE << >>

Construct ==
    /\ ctor.status = "pending"
    /\ ConstructReturn(MoveTasksRule_init(ctor.rule_params, "rule",
                                          "move tasks", Some(FALSE)))
    /\ UNCHANGED <<section_tasks, client_cached, ncalls, last, runner,
                   fn_call>>

NextCtor == Construct

SpecCtor == InitCtor /\ [][NextCtor]_vars

-----------------------------------------------------------------------------
(* rules/rule_meta.py: the parsers of the time arguments of a rule.  A     *)
(* string is modelled by the entries the pattern of parse_timeframe can    *)
(* find in it: a signed number, at most one blank and a run of letters     *)
(* that is delimited on both sides as the look-behind (start of line,      *)
(* blank, letter or comma) and the look-ahead (blank, sign, digit, comma   *)
(* or end of line) demand.                                                 *)

Entry(num, unit) == [num |-> num, unit |-> unit]

\* the entries of the strings of the model, in the order of the text
TimeframeEntries(tf_str) ==
    CASE tf_str = "1d" -> <<Entry(1, "d")>>
      [] tf_str = "2h" -> <<Entry(2, "h")>>
      [] tf_str = "3m" -> <<Entry(3, "m")>>
      [] tf_str = "0d" -> <<Entry(0, "d")>>
      [] tf_str = "2M" -> <<Entry(2, "M")>>
      [] tf_str = "-4minute" -> <<Entry(-4, "minute")>>
      [] tf_str = "5 mONths" -> <<Entry(5, "mONths")>>
      [] tf_str = "3m 2m" -> <<Entry(3, "m"), Entry(2, "m")>>
      [] tf_str = "1h 2hours" -> <<Entry(1, "h"), Entry(2, "hours")>>
      [] tf_str = "3h-4m+2M" ->
            <<Entry(3, "h"), Entry(-4, "m"), Entry(2, "M")>>
      [] tf_str = "90m 30h 1w" ->
            <<Entry(90, "m"), Entry(30, "h"), Entry(1, "w")>>
      [] tf_str = "1minute 2 hour 3Day 4w,5 mONths 6 y" ->
            <<Entry(1, "minute"), Entry(2, "hour"), Entry(3, "Day"),
              Entry(4, "w"), Entry(5, "mONths"), Entry(6, "y")>>
      [] tf_str = "soon" -> << >>
      [] tf_str = "3 fortnights" -> <<Entry(3, "fortnights")>>
      [] tf_str = "1.5h" -> << >>
      [] OTHER -> << >>

\* the strings a timeframe argument takes in the model
TimeframeStrings ==
    {"1d", "2h", "3m", "0d", "2M", "-4minute", "5 mONths", "3m 2m",
     "1h 2hours", "3h-4m+2M", "90m 30h 1w",
     "1minute 2 hour 3Day 4w,5 mONths 6 y", "soon", "3 fortnights", "1.5h",
     ""}

\* str.lower() of the unit words of the model
LowerCase(word) ==
    CASE word = "M" -> "m"
      [] word = "Day" -> "day"
      [] word = "mONths" -> "months"
      [] OTHER -> word

\* the words a timeframe regex matches when the case is as written
Words(ptn) ==
    CASE ptn = "minutes?" -> {"minute", "minutes"}
      [] ptn = "hours?" -> {"hour", "hours"}
      [] ptn = "days?" -> {"day", "days"}
      [] ptn = "weeks?" -> {"week", "weeks"}
      [] ptn = "months?" -> {"month", "months"}
      [] ptn = "years?" -> {"year", "years"}
      [] OTHER -> {ptn}

Timeframe(word, letter) ==
    <<[ptn |-> word, case_sensitive |-> FALSE],
      [ptn |-> letter, case_sensitive |-> TRUE]>>

\* the indicator sets parse_timedelta_arg passes, in the order of its calls
Timeframes ==
    <<Timeframe("minutes?", "m"), Timeframe("hours?", "h"),
      Timeframe("days?", "d"), Timeframe("weeks?", "w"),
      Timeframe("months?", "M"), Timeframe("years?", "y")>>

\* ptn.finditer(tf_str) for the pattern of one indicator variant
FindIter(entries, variant) ==
    SelectSeq(entries,
        LAMBDA e : IF variant.case_sensitive
                   THEN e.unit \in Words(variant.ptn)
                   ELSE LowerCase(e.unit) \in Words(variant.ptn))

\* the end of parse_timeframe, matches being the matches of all variants
TimeframeOfMatches(matches) ==
    IF Len(matches) = 0 THEN Return(0)
    ELSE IF Len(matches) > 1 THEN Raise("TimeframeArgDupeError")
    ELSE Return(matches[1].num)

\* parse_timeframe counting the matches of each variant on its own: the
\* first variant that matches decides
parse_timeframe_per_variant(tf_str, timeframes) ==
    LET found == [k \in 1..Len(timeframes) |->
                    FindIter(TimeframeEntries(tf_str), timeframes[k])]
        hits == {k \in 1..Len(timeframes) : Len(found[k]) > 0}
    IN  IF hits = {} THEN Return(0)
        ELSE TimeframeOfMatches(found[CHOOSE k \in hits :
                                        \A j \in hits : k <= j])

\* Rule.parse_timeframe
parse_timeframe(tf_str, timeframes) ==
    TimeframeOfMatches(
        Concat([k \in 1..Len(timeframes) |->
                    FindIter(TimeframeEntries(tf_str), timeframes[k])]))

Sign(x) == IF x < 0 THEN -1 ELSE 1

\* divmod(x * sign, n) with the sign put back, as relativedelta._fix does
Quot(x, n) == Sign(x) * ((x * Sign(x)) \div n)

Rem(x, n) == Sign(x) * ((x * Sign(x)) % n)

\* relativedelta(minutes=.., hours=.., days=.., weeks=.., months=..,
\* years=..): weeks count as days, and _fix carries minutes into hours,
\* hours into days and months into years
relativedelta(minutes, hours, days, weeks, months, years) ==
    [years |-> years + Quot(months, 12),
     months |-> Rem(months, 12),
     days |-> days + 7 * weeks + Quot(hours + Quot(minutes, 60), 24),
     hours |-> Rem(hours + Quot(minutes, 60), 24),
     minutes |-> Rem(minutes, 60),
     seconds |-> 0, microseconds |-> 0]

\* the end of parse_timedelta_arg: parts are the outcomes of its six
\* parse_timeframe calls, raise_at the first that raised
TimedeltaOfParts(parts, raise_at) ==
    IF raise_at /= 0 THEN parts[raise_at]
    ELSE Return(Some(relativedelta(parts[1].val, parts[2].val, parts[3].val,
                                   parts[4].val, parts[5].val,
                                   parts[6].val)))

TimedeltaOfCalls(parts) == TimedeltaOfParts(parts, FirstRaiseAt(parts))

\* Rule.parse_timedelta_arg: arg_str is a string or None
parse_timedelta_arg(arg_str) ==
    IF arg_str = None \/ arg_str = Some("") THEN Return(None)
    ELSE TimedeltaOfCalls([k \in 1..Len(Timeframes) |->
                              parse_timeframe(Val(arg_str), Timeframes[k])])

\* dt.time.fromisoformat of the time strings of the model: minutes since
\* midnight and whether the string carries a UTC offset
TimeFromIsoformat(t_str) ==
    CASE t_str = "13:00" -> Return([minutes |-> 780, tzinfo |-> None])
      [] t_str = "09:30" -> Return([minutes |-> 570, tzinfo |-> None])
      [] t_str = "13:00-05:00" ->
            Return([minutes |-> 780, tzinfo |-> Some(-300)])
      [] OTHER -> Raise("ValueError")

\* parse_time_arg after fromisoformat ended with time_parsed
TimeArgOfParsed(time_parsed, is_tz_required) ==
    IF time_parsed.exc /= "none" THEN time_parsed
    ELSE IF is_tz_required = Some(TRUE) /\ time_parsed.val.tzinfo = None
    THEN Raise("UnsupportedFormatError")
    ELSE IF is_tz_required = None /\ time_parsed.val.tzinfo /= None
    THEN Raise("UnsupportedFormatError")
    ELSE Return(Some(time_parsed.val))

\* Rule.parse_time_arg: is_tz_required is True, False or None
parse_time_arg(t_str, is_tz_required) ==
    IF t_str = None \/ t_str = Some("") THEN Return(None)
    ELSE TimeArgOfParsed(TimeFromIsoformat(Val(t_str)), is_tz_required)

-----------------------------------------------------------------------------
(* general/config.py and the loaders of rules.py, rule_meta.py and         *)
(* move_tasks_rule.py.  A ConfigParser is the sequence of its sections,    *)
(* each [name, items] with items a function from option names to raw       *)
(* strings; section names are unique, as ConfigParser.read rejects a       *)
(* duplicate.                                                              *)

\* str.strip() on the strings of the model
Strip(str) ==
    CASE str = " r1 " -> "r1"
      [] OTHER -> str

\* d without key k
DelKey(d, k) == [x \in DOMAIN d \ {k} |-> d[x]]

HasSection(cp, section) == \E k \in 1..Len(cp) : cp[k].name = section

SectionItems(cp, section) ==
    cp[CHOOSE k \in 1..Len(cp) : cp[k].name = section].items

HasOption(cp, section, option) ==
    HasSection(cp, section) /\ option \in DOMAIN SectionItems(cp, section)

\* BasicInterpolation.before_get, the interpolation of the parser that
\* read_conf_file creates: a '%' that starts neither '%%' nor '%(' is a
\* syntax error
before_get(raw) ==
    IF raw \in {"100% done"} THEN Raise("InterpolationSyntaxError")
    ELSE Return(Some(raw))

\* rules_cp.get(section, option, fallback=None): None stands for the
\* fallback, which the caller supplies
cp_get(cp, section, option) ==
    IF HasOption(cp, section, option)
    THEN before_get(SectionItems(cp, section)[option])
    ELSE Return(None)

\* rules_cp[section][option]
cp_getitem(cp, section, option) ==
    IF HasOption(cp, section, option)
    THEN before_get(SectionItems(cp, section)[option])
    ELSE Raise("KeyError")

\* int() of the strings of the model
IntOf(str) ==
    CASE str = "1" -> Return(Some(1))
      [] str = "10" -> Return(Some(10))
      [] str = "20" -> Return(Some(20))
      [] str = "101" -> Return(Some(101))
      [] str = "102" -> Return(Some(102))
      [] OTHER -> Raise("ValueError")

\* RawConfigParser._convert_to_boolean
BooleanOf(str) ==
    CASE str \in {"1", "yes", "true", "on"} -> Return(Some(TRUE))
      [] str \in {"0", "no", "false", "off"} -> Return(Some(FALSE))
      [] OTHER -> Raise("ValueError")

\* the conversion of what get returned; the fallback is not converted
IntOfGot(got) ==
    IF got.exc /= "none" \/ got.val = None THEN got ELSE IntOf(Val(got.val))

BooleanOfGot(got) ==
    IF got.exc /= "none" \/ got.val = None THEN got
    ELSE BooleanOf(Val(got.val))

cp_getint(cp, section, option) == IntOfGot(cp_get(cp, section, option))

cp_getboolean(cp, section, option) ==
    BooleanOfGot(cp_get(cp, section, option))

\* conf_str.split(',') with each item stripped of blanks and, for names,
\* of quotes
SplitList(conf_str) ==
    CASE conf_str = "A" -> <<"A">>
      [] conf_str = "'A', C" -> <<"A", "C">>
      [] conf_str = "101" -> <<"101">>
      [] conf_str = "101, x" -> <<"101", "x">>
      [] OTHER -> <<conf_str>>

\* cast_var for CastType.INT and CastType.STRING
cast_var(var, cast_type) ==
    IF cast_type = "int" THEN IntOf(var) ELSE Return(Some(var))

\* the items of a list that cast_var could cast
CastList(items, cast_type) ==
    [k \in 1..Len(SelectSeq(items, LAMBDA v :
                        cast_var(v, cast_type).exc = "none")) |->
        Val(cast_var(SelectSeq(items, LAMBDA v :
                        cast_var(v, cast_type).exc = "none")[k],
                     cast_type).val)]

\* config.parse_list_from_conf_string of what get returned
parse_list_from_conf_string(got, val_type) ==
    IF got.exc /= "none" THEN got
    ELSE IF got.val = None \/ got.val = Some("") THEN Return(Some(<< >>))
    ELSE Return(Some(CastList(SplitList(Val(got.val)), val_type)))

\* a parser applied to what get returned
ParseGot(got, parsed) == IF got.exc /= "none" THEN got ELSE parsed

\* the statements of the try blocks of Rule.load_specific_from_conf and
\* MoveTasksRule.load_specific_from_conf, in the order they run
ConfOutcomes(cp, rule_id) ==
    << cp_getitem(cp, rule_id, "rule type"),
       cp_getboolean(cp, rule_id, "test report only"),
       cp_get(cp, rule_id, "project name"),
       cp_getint(cp, rule_id, "project gid"),
       cp_getboolean(cp, rule_id, "for my tasks list"),
       cp_getint(cp, rule_id, "user task list id"),
       cp_get(cp, rule_id, "workspace name"),
       cp_getint(cp, rule_id, "workspace gid"),
       cp_getboolean(cp, rule_id, "no due date"),
       cp_get(cp, rule_id, "min time until due"),
       ParseGot(cp_get(cp, rule_id, "min time until due"),
           parse_timedelta_arg(cp_get(cp, rule_id,
                                      "min time until due").val)),
       cp_get(cp, rule_id, "max time until due"),
       ParseGot(cp_get(cp, rule_id, "max time until due"),
           parse_timedelta_arg(cp_get(cp, rule_id,
                                      "max time until due").val)),
       cp_get(cp, rule_id, "assumed time for min due"),
       ParseGot(cp_get(cp, rule_id, "assumed time for min due"),
           parse_time_arg(cp_get(cp, rule_id,
                                 "assumed time for min due").val, None)),
       cp_get(cp, rule_id, "assumed time for max due"),
       ParseGot(cp_get(cp, rule_id, "assumed time for max due"),
           parse_time_arg(cp_get(cp, rule_id,
                                 "assumed time for max due").val, None)),
       parse_list_from_conf_string(
           cp_get(cp, rule_id, "src sections include names"), "string"),
       parse_list_from_conf_string(
           cp_get(cp, rule_id, "src sections include gids"), "int"),
       parse_list_from_conf_string(
           cp_get(cp, rule_id, "src sections exclude names"), "string"),
       parse_list_from_conf_string(
           cp_get(cp, rule_id, "src sections exclude gids"), "int"),
       cp_get(cp, rule_id, "dst section name"),
       cp_getint(cp, rule_id, "dst section gid") >>

\* the rule_params dict of the outcomes when none of them raised
ConfRuleParams(outs) ==
    [project_name |-> outs[3].val,
     project_gid |-> outs[4].val,
     is_my_tasks_list |-> outs[5].val,
     user_task_list_gid |-> outs[6].val,
     workspace_name |-> outs[7].val,
     workspace_gid |-> outs[8].val,
     match_no_due_date |-> IF outs[9].val = None THEN FALSE
                           ELSE Val(outs[9].val),
     min_time_until_due_str |-> outs[10].val,
     min_time_until_due |-> outs[11].val,
     max_time_until_due_str |-> outs[12].val,
     max_time_until_due |-> outs[13].val,
     min_due_assumed_time_str |-> outs[14].val,
     min_due_assumed_time |-> outs[15].val,
     max_due_assumed_time_str |-> outs[16].val,
     max_due_assumed_time |-> outs[17].val,
     src_sections_include_names |-> outs[18].val,
     src_sections_include_gids |-> outs[19].val,
     src_sections_exclude_names |-> outs[20].val,
     src_sections_exclude_gids |-> outs[21].val,
     dst_section_name |-> outs[22].val,
     dst_section_gid |-> outs[23].val]

\* the exceptions the try block of MoveTasksRule.load_specific_from_conf
\* catches
LoadCaught ==
    {"UnsupportedFormatError", "KeyError", "TimeframeArgDupeError",
     "ValueError"}

\* the second try block: the constructor and its AssertionError
LoadConstructed(made) ==
    IF made.exc = "AssertionError" THEN Return(None)
    ELSE IF made.exc /= "none" THEN made
    ELSE Return(Some(made.val))

\* MoveTasksRule.load_specific_from_conf after the statements of its
\* first try block ended with outs, the first raise at raise_at
LoadOfOutcomes(outs, raise_at, rule_id) ==
    IF raise_at /= 0
    THEN IF outs[raise_at].exc \in LoadCaught THEN Return(None)
         ELSE Raise(outs[raise_at].exc)
    ELSE LoadConstructed(
            MoveTasksRule_init(ConfRuleParams(outs), rule_id,
                               Val(outs[1].val), outs[2].val))

LoadAfterTry(outs, rule_id) ==
    LoadOfOutcomes(outs, FirstRaiseAt(outs), rule_id)

\* MoveTasksRule.load_specific_from_conf(rules_cp, rule_id): val is None
\* or the rule
MoveTasksRule_load_specific_from_conf(cp, rule_id) ==
    LoadAfterTry(ConfOutcomes(cp, rule_id), rule_id)

\* MoveTasksRule.get_rule_type_names
get_rule_type_names ==
    {"move tasks", "auto-promote tasks", "auto-promote",
     "auto promote tasks", "auto promote", "promote tasks"}

\* one pass of the loop of load_all_from_config once the rule type was
\* read: val is the rule to append, or None for a section that is skipped
LoadOfRuleType(cp, rule_id, got) ==
    IF got.exc /= "none" THEN got
    ELSE IF Strip(IF got.val = None THEN "" ELSE Val(got.val))
                \notin get_rule_type_names
    THEN Return(None)
    ELSE MoveTasksRule_load_specific_from_conf(cp, rule_id)

LoadSection(cp, rule_id) ==
    LoadOfRuleType(cp, rule_id, cp_get(cp, rule_id, "rule type"))

\* the outcomes of the passes of the loop, one for each section
LoadSections(cp) ==
    [k \in 1..Len(cp) |-> LoadSection(cp, Strip(cp[k].name))]

\* loaded_rules when no pass raised
LoadedRules(loads) ==
    [k \in 1..Len(SelectSeq(loads, LAMBDA l : l.val /= None)) |->
        Val(SelectSeq(loads, LAMBDA l : l.val /= None)[k].val)]

LoadAllOfLoads(loads, raise_at) ==
    IF raise_at /= 0 THEN loads[raise_at] ELSE Return(LoadedRules(loads))

LoadAllAfterLoop(loads) == LoadAllOfLoads(loads, FirstRaiseAt(loads))

\* rules.load_all_from_config on the parser read_conf_file returned
load_all_from_config(cp) == LoadAllAfterLoop(LoadSections(cp))

-----------------------------------------------------------------------------
(* Rule.parse_timeframe and Rule.parse_timedelta_arg over the strings of   *)
(* the model                                                               *)

PendingCall(fn, args) ==
    [fn |-> fn, status |-> "pending", args |-> args, out |-> Return(None)]

\* the call ended: it returned a value or raised
EndCall(out) ==
    fn_call' = [fn_call EXCEPT
                    !.status = IF out.exc = "none" THEN "returned"
                               ELSE "raised",
                    !.out = out]

InitParse ==
    /\ InitCommon
    /\ rules = << >>
    /\ sync_count = << >>
    /\ ctor = NoCtor
    /\ fn_call \in
            {PendingCall("parse_timeframe",
                         [tf_str |-> t, timeframes |-> Timeframes[k]]) :
                t \in TimeframeStrings, k \in 1..Len(Timeframes)}
            \cup {PendingCall("parse_timedelta_arg", [arg_str |-> a]) :
                    a \in {None} \cup {Some(t) : t \in TimeframeStrings}}

ParseTimeframe ==
    /\ fn_call.fn = "parse_timeframe"
    /\ fn_call.status = "pending"
    /\ EndCall(parse_timeframe(fn_call.args.tf_str, fn_call.args.timeframes))
    /\ UNCHANGED <<rules, section_tasks, client_cached, sync_count, ncalls,
                   last, runner, ctor>>

ParseTimedeltaArg ==
    /\ fn_call.fn = "parse_timedelta_arg"
    /\ fn_call.status = "pending"
    /\ EndCall(parse_timedelta_arg(fn_call.args.arg_str))
    /\ UNCHANGED <<rules, section_tasks, client_cached, sync_count, ncalls,
                   last, runner, ctor>>

NextParse ==
    \/ ParseTimeframe
    \/ ParseTimedeltaArg

SpecParse == InitParse /\ [][NextParse]_vars

-----------------------------------------------------------------------------
(* The loaders over the rules.conf files of the model *)

MaxSections == 2

\* a section of a project rule that loads
GoodSection ==
    ("rule type" :> "move tasks") @@ ("project gid" :> "10")
    @@ ("workspace gid" :> "1") @@ ("no due date" :> "true")
    @@ ("dst section gid" :> "102")

\* a section of a rule for the user's task list with a due window, an
\* assumed time and lists of source sections, which loads
GoodWindowSection ==
    ("rule type" :> "auto-promote") @@ ("test report only" :> "yes")
    @@ ("for my tasks list" :> "true") @@ ("workspace name" :> "W")
    @@ ("min time until due" :> "1d") @@ ("max time until due" :> "3h-4m+2M")
    @@ ("assumed time for min due" :> "13:00")
    @@ ("src sections include names" :> "'A', C")
    @@ ("src sections exclude gids" :> "101, x")
    @@ ("dst section name" :> "A")

\* GoodSection with a due window of the text tf_str in place of
\* 'no due date'
WindowSection(option, tf_str) ==
    (option :> tf_str) @@ DelKey(GoodSection, "no due date")

\* the sections of the model: the two that load; an unknown and a missing
\* rule type; a flag that is no boolean; a gid that is no integer; no
\* project and no user task list; a timeframe given twice; an assumed
\* time with a timezone and one that is no time; timeframes with no
\* recognised entry; an empty timeframe; a name with a percent sign
SectionShapes ==
    {GoodSection,
     GoodWindowSection,
     ("rule type" :> "archive tasks") @@ GoodSection,
     DelKey(GoodSection, "rule type"),
     ("test report only" :> "42") @@ GoodSection,
     ("project gid" :> "1x") @@ GoodSection,
     DelKey(GoodSection, "project gid"),
     WindowSection("max time until due", "1h 2hours"),
     ("assumed time for min due" :> "13:00-05:00")
        @@ WindowSection("min time until due", "1d"),
     ("assumed time for max due" :> "noon")
        @@ WindowSection("max time until due", "2h"),
     WindowSection("min time until due", "soon"),
     WindowSection("max time until due", "3 fortnights"),
     WindowSection("min time until due", ""),
     ("project name" :> "100% done") @@ GoodSection}

\* the names a section at position k of the file can have
SectionNames(k) ==
    CASE k = 1 -> {"r1", " r1 "}
      [] k = 2 -> {"r2"}
      [] OTHER -> {"r3"}

\* the parsers of the files with n sections
ConfFiles(n) ==
    {cp \in [1..n -> [name : UNION {SectionNames(k) : k \in 1..n},
                      items : SectionShapes]] :
        \A k \in 1..n : cp[k].name \in SectionNames(k)}

\* load_all_from_config on a file of up to MaxSections sections, and
\* load_specific_from_conf on a section of a file or on a section the
\* file has not
InitLoad ==
    /\ InitCommon
    /\ rules = << >>
    /\ sync_count = << >>
    /\ ctor = NoCtor
    /\ fn_call \in
            {PendingCall("load_all_from_config", [cp |-> cp]) :
                cp \in UNION {ConfFiles(n) : n \in 0..MaxSections}}
            \cup {PendingCall("load_specific_from_conf",
                              [cp |-> cp, rule_id |-> id]) :
                    cp \in ConfFiles(1), id \in {"r1", " r1 "}}

LoadAllFromConfig ==
    /\ fn_call.fn = "load_all_from_config"
    /\ fn_call.status = "pending"
    /\ EndCall(load_all_from_config(fn_call.args.cp))
    /\ UNCHANGED <<rules, section_tasks, client_cached, sync_count, ncalls,
                   last, runner, ctor>>

LoadSpecificFromConf ==
    /\ fn_call.fn = "load_specific_from_conf"
    /\ fn_call.status = "pending"
    /\ EndCall(MoveTasksRule_load_specific_from_conf(fn_call.args.cp,
                                                     fn_call.args.rule_id))
    /\ UNCHANGED <<rules, section_tasks, client_cached, sync_count, ncalls,
                   last, runner, ctor>>

NextLoad ==
    \/ LoadAllFromConfig
    \/ LoadSpecificFromConf

SpecLoad == InitLoad /\ [][NextLoad]_vars

-----------------------------------------------------------------------------
(* asana/utils.py called directly: get_net_include_section_gids and        *)
(* get_filtered_tasks over the containers and sections of the service      *)

\* the service with the two completed tasks in section 103
UtilsSectionTasks ==
    (101 :> <<1001, 1002>>) @@ (102 :> <<1003>>) @@ (103 :> <<1004, 1005>>)
    @@ (201 :> <<2001>>) @@ (202 :> << >>)

UtilsFaults ==
    {NoFault,
     [fn |-> "get_section_gids_in_project_or_utl", nth |-> 1],
     [fn |-> "get_section_gid_from_name", nth |-> 1],
     [fn |-> "get_tasks", nth |-> 1],
     [fn |-> "_get_client", nth |-> 0]}

\* section names: "A" is in both containers, "B" twice in project 10,
\* "C" only in the user task list, "Z" nowhere; gid 999 is no section
NetIncludeInputs ==
    [proj_or_utl_gid : {10, 20},
     include_sect_names : {None, Some(<<"A">>), Some(<<"Z">>)},
     include_sect_gids : {None, Some(<< >>), Some(<<101>>),
                          Some(<<101, 102>>), Some(<<999>>)},
     exclude_sect_names : {None, Some(<<"A">>), Some(<<"C">>)},
     exclude_sect_gids : {None, Some(<<102>>), Some(<<101, 999>>),
                          Some(<<999>>)},
     default_to_include : BOOLEAN,
     fault : UtilsFaults \ {[fn |-> "get_tasks", nth |-> 1]}]

FilteredTasksInputs ==
    [section_gid : {101, 103},
     match_no_due_date : BOOLEAN,
     min_time_until_due : {None, Some(RelDelta(1, 0, 0))},
     max_time_until_due : {None, Some(RelDelta(0, 2, 0)),
                           Some(RelDelta(1, 0, 0))},
     min_time_due_assumed : {None},
     max_time_due_assumed : {None, Some(Time(60))},
     now_with_tz : Nows,
     fault : {NoFault, [fn |-> "get_tasks", nth |-> 1],
              [fn |-> "_get_client", nth |-> 0]}]

InitUtils ==
    /\ section_tasks = UtilsSectionTasks
    /\ client_cached = FALSE
    /\ ncalls = 0
    /\ last = NoLast
    /\ runner = IdleRunner
    /\ rules = << >>
    /\ sync_count = << >>
    /\ ctor = NoCtor
    /\ fn_call \in
            {PendingCall("get_net_include_section_gids", a) :
                a \in NetIncludeInputs}
            \cup {PendingCall("get_filtered_tasks", a) :
                    a \in FilteredTasksInputs}

\* the call ended with out; the client is cached once a wrapper of the
\* API was entered and could create it
UtilsReturn(env, out) ==
    /\ EndCall(out)
    /\ client_cached' = ClientCachedAfter(env, out.exc /= "AssertionError")
    /\ UNCHANGED <<rules, section_tasks, sync_count, ncalls, last, runner,
                   ctor>>

GetNetIncludeSectionGids ==
    /\ fn_call.fn = "get_net_include_section_gids"
    /\ fn_call.status = "pending"
    /\ UtilsReturn(Env(fn_call.args.fault),
            get_net_include_section_gids(Env(fn_call.args.fault),
                fn_call.args.proj_or_utl_gid,
                fn_call.args.include_sect_names,
                fn_call.args.include_sect_gids,
                fn_call.args.exclude_sect_names,
                fn_call.args.exclude_sect_gids,
                fn_call.args.default_to_include))

GetFilteredTasks ==
    /\ fn_call.fn = "get_filtered_tasks"
    /\ fn_call.status = "pending"
    /\ UtilsReturn(Env(fn_call.args.fault),
            get_filtered_tasks(Env(fn_call.args.fault), 1, section_tasks,
                fn_call.args.now_with_tz, fn_call.args.section_gid,
                fn_call.args.match_no_due_date,
                fn_call.args.min_time_until_due,
                fn_call.args.max_time_until_due,
                fn_call.args.min_time_due_assumed,
                fn_call.args.max_time_due_assumed))

NextUtils ==
    \/ GetNetIncludeSectionGids
    \/ GetFilteredTasks

SpecUtils == InitUtils /\ [][NextUtils]_vars

-----------------------------------------------------------------------------
(* main.py: _main_rules(force_test_report_only) over the rules.conf files  *)
(* of the model: the rules are loaded, then executed in order              *)

\* a section that loads as a rule on project "P" moving the tasks with no
\* due date to section 102, with no 'test report only' key
ProjectSection ==
    ("rule type" :> "move tasks") @@ ("project name" :> "P")
    @@ ("workspace gid" :> "1") @@ ("no due date" :> "true")
    @@ ("dst section gid" :> "102")

\* the same for the user's own task list and its section 202
MyTasksSection ==
    ("rule type" :> "move tasks") @@ ("for my tasks list" :> "true")
    @@ ("workspace name" :> "W") @@ ("no due date" :> "true")
    @@ ("dst section gid" :> "202")

\* a rule on project "P" for the tasks due within two hours
DueSoonSection ==
    ("max time until due" :> "2h") @@ DelKey(ProjectSection, "no due date")

\* the sections of the files: with and without the 'test report only'
\* key, and a section whose project name cannot be interpolated
MainSectionShapes ==
    {ProjectSection, MyTasksSection, DueSoonSection,
     ("test report only" :> "false") @@ ProjectSection,
     ("test report only" :> "true") @@ ProjectSection,
     ("test report only" :> "yes") @@ MyTasksSection,
     ("test report only" :> "no") @@ DueSoonSection,
     ("project name" :> "100% done") @@ ProjectSection}

\* the files _main_rules reads: one section, or section "r1" followed by
\* a second rule on the same project
MainConfFiles ==
    {<<[name |-> "r1", items |-> shape]>> : shape \in MainSectionShapes}
    \cup {<<[name |-> "r1", items |-> shape],
            [name |-> "r2", items |-> ProjectSection]>> :
                shape \in {ProjectSection, DueSoonSection}}

InitMain ==
    /\ InitCommon
    /\ rules = << >>
    /\ sync_count = << >>
    /\ ctor = NoCtor
    /\ fn_call \in {PendingCall("_main_rules",
                        [cp |-> cp, force_test_report_only |-> force]) :
                        cp \in MainConfFiles, force \in BOOLEAN}

\* all_rules = rules.load_all_from_config() ended with loaded; when it
\* returned, execute_rules(all_rules, force_test_report_only) is entered
MainRulesLoaded(loaded) ==
    /\ fn_call' = [fn_call EXCEPT
                        !.status = IF loaded.exc = "none" THEN "executing"
                                   ELSE "raised",
                        !.out = IF loaded.exc = "none" THEN @ ELSE loaded]
    /\ rules' = IF loaded.exc = "none" THEN loaded.val ELSE << >>
    /\ sync_count' = IF loaded.exc = "none"
                     THEN [i \in 1..Len(loaded.val) |-> 0] ELSE << >>
    /\ runner' = IF loaded.exc = "none"
                 THEN [IdleRunner EXCEPT
                            !.status = "running", !.i = 1,
                            !.force = fn_call.args.force_test_report_only]
                 ELSE runner
    /\ UNCHANGED <<section_tasks, client_cached, ncalls, last, ctor>>

MainRulesLoad ==
    /\ fn_call.fn = "_main_rules"
    /\ fn_call.status = "pending"
    /\ MainRulesLoaded(load_all_from_config(fn_call.args.cp))

\* return rules.execute_rules(...): its result, or the exception that
\* left it
MainRulesReturn ==
    /\ fn_call.fn = "_main_rules"
    /\ fn_call.status = "executing"
    /\ runner.status \in {"returned", "raised"}
    /\ EndCall(IF runner.status = "returned" THEN Return(runner.result)
               ELSE runner.exec_log[Len(runner.exec_log)].out)
    /\ UNCHANGED <<rules, section_tasks, client_cached, sync_count, ncalls,
                   last, runner, ctor>>

NextMain ==
    \/ MainRulesLoad
    \/ \E fault \in Faults, now \in Nows : ExecuteRulesIter(fault, now)
    \/ ExecuteRulesReturn
    \/ MainRulesReturn

SpecMain == InitMain /\ [][NextMain]_vars

-----------------------------------------------------------------------------
(* asana/utils.py: _filter_tasks_by_datetime over lists of task dicts      *)

\* task dicts as the API returns them: 7001 has no due date; 7002 has a
\* due date and no 'due_at' key, 7003 and 7006 a due date and a 'due_at'
\* of None; 7004 is due on day 3 at 03:00 UTC; 7005 is due on day 2 at
\* 23:20 in a zone two hours behind, which is day 3 at 01:20 UTC
FilterTasks ==
    <<[gid |-> 7001, due_on |-> None, due_at |-> None],
      [gid |-> 7002, due_on |-> Some(3)],
      [gid |-> 7003, due_on |-> Some(3), due_at |-> None],
      [gid |-> 7004, due_on |-> Some(3), due_at |-> Some(4500)],
      [gid |-> 7005, due_on |-> Some(2), due_at |-> Some(4400)],
      [gid |-> 7006, due_on |-> Some(2), due_at |-> None]>>

FilterZones == {0, -120, 120}

FilterInputs ==
    [tasks : {SelectSeq(FilterTasks, LAMBDA t : t.gid \in gids) :
                gids \in SUBSET {7001, 7002, 7004, 7005, 7006}}
             \cup {<<FilterTasks[3], FilterTasks[4]>>},
     dt_base : [utc : {2940, 4380}, tz : FilterZones],
     rel_dt_until_due : {None, Some(RelDelta(0, 0, 0)),
                         Some(RelDelta(1, 0, 0)), Some(RelDelta(-1, 0, 0)),
                         Some(RelDelta(0, 2, 0)), Some(RelDelta(0, 0, -30)),
                         Some(RelDelta(1, 1, 0))},
     op : {"ge", "le", "lt"},
     time_due_assumed : {None, Some(Time(60)), Some(Time(1380))}]

InitFilter ==
    /\ InitCommon
    /\ rules = << >>
    /\ sync_count = << >>
    /\ ctor = NoCtor
    /\ fn_call \in {PendingCall("_filter_tasks_by_datetime", a) :
                        a \in FilterInputs}

FilterTasksByDatetime ==
    /\ fn_call.fn = "_filter_tasks_by_datetime"
    /\ fn_call.status = "pending"
    /\ EndCall(Return(_filter_tasks_by_datetime(fn_call.args.tasks,
            fn_call.args.dt_base, fn_call.args.rel_dt_until_due,
            fn_call.args.op, fn_call.args.time_due_assumed)))
    /\ UNCHANGED <<rules, section_tasks, client_cached, sync_count, ncalls,
                   last, runner, ctor>>

NextFilter ==
    \/ FilterTasksByDatetime

SpecFilter == InitFilter /\ [][NextFilter]_vars

-----------------------------------------------------------------------------
(* Properties of execute_rules, checked under SpecRunner *)

\* C1: when execute_rules returns, its result is the logical AND of the
\* per-rule execute() results: True exactly when every rule's execute()
\* returned True.
C1_ResultIsAndOfExecuteResults ==
    runner.status = "returned" =>
        Val(runner.result) =
            (\A k \in DOMAIN runner.exec_log :
                runner.exec_log[k].out.val = Some(TRUE))

\* C2: execute_rules calls execute() once per rule, in list order, with
\* the caller's force flag; whatever a rule returned, the next rule is
\* executed, so the loop ends before the end of the list only when an
\* execute() raised, and a call that returns has executed every rule.
C2_EveryRuleExecutedOnceInOrder ==
    /\ \A k \in DOMAIN runner.exec_log :
            /\ runner.exec_log[k].idx = k
            /\ runner.exec_log[k].force = runner.force
            /\ k < Len(runner.exec_log) => runner.exec_log[k].out.exc = "none"
    /\ Len(runner.exec_log) <= Len(rules)
    /\ runner.status = "running" => Len(runner.exec_log) = runner.i - 1
    /\ runner.status = "returned" => Len(runner.exec_log) = Len(rules)
    /\ runner.status = "raised" =>
            runner.exec_log[Len(runner.exec_log)].out.exc /= "none"
    /\ runner.status /= "idle" /\ last.op = "execute" =>
            /\ last.idx = Len(runner.exec_log)
            /\ last.force = runner.force
            /\ rules[last.idx].cls = "BlankRule"
                    /\ rules[last.idx].rule_type = "good-rule-type" =>
                        (last.logged /= << >>) = runner.force

\* a rule that reported failure was followed by another rule, under force
C2_Witness ==
    /\ runner.status = "returned"
    /\ runner.force
    /\ Len(runner.exec_log) = 2
    /\ runner.exec_log[1].out.val /= Some(TRUE)
    /\ rules[2].cls = "BlankRule"
    /\ last.logged /= << >>

\* C3: an execute() that got as far as fetching tasks never raises, API
\* error or not, and never ends execute_rules before the later rules ran.
C3_ApiErrorStaysLocal ==
    last.op = "execute" /\ last.fetched /= << >> =>
        /\ last.out.exc = "none"
        /\ runner.status /= "raised"

-----------------------------------------------------------------------------
(* Properties of one rule instance, checked under Spec *)

\* C4: over any sequence of is_valid() and execute() calls on a rule,
\* _sync_and_validate_with_api() is invoked at most once.
C4_SyncAtMostOnce ==
    \A i \in DOMAIN sync_count : sync_count[i] <= 1

\* C5: the cached validity starts as None, is only ever None, True or
\* False, and once it is True or False no call changes it.
C5_ValidityFixedOnceKnown ==
    /\ \A i \in DOMAIN rules : rules[i].is_valid = None
    /\ [][\A i \in DOMAIN rules :
            /\ rules'[i].is_valid \in {None, Some(TRUE), Some(FALSE)}
            /\ rules[i].is_valid /= None =>
                    rules'[i].is_valid = rules[i].is_valid]_vars

\* a second call on a rule whose validity is known, which did not
\* synchronize again
C5_Witness ==
    /\ ncalls = 2
    /\ rules[1].is_valid = Some(FALSE)
    /\ ~last.synced

\* C6: an execute() that fetched tasks, moved a task or reported a move
\* had is_valid() return True and is_criteria_met() return True.
C6_NoWorkUnlessValidAndCriteriaMet ==
    last.op = "execute"
        /\ (last.fetched /= << >> \/ last.moved /= << >>
                \/ last.logged /= << >>) =>
            /\ last.valid_ret = Some(TRUE)
            /\ last.criteria_ret = Some(TRUE)

\* a valid rule whose criteria are not met was executed and did nothing
C6_Witness ==
    /\ last.op = "execute"
    /\ last.valid_ret = Some(TRUE)
    /\ last.criteria_ret = Some(FALSE)
    /\ last.fetched = << >>
    /\ section_tasks = InitSectionTasks

\* C7: an execute() of a rule whose own test-report-only flag is set, or
\* called with force_test_report_only = True, calls move_task_to_section
\* for no task and leaves the sections of the service as they were.
C7_ReportOnlyMovesNothing ==
    [][ncalls' = ncalls + 1 /\ last'.op = "execute"
            /\ (Truthy(rules[last'.idx].test_report_only) \/ last'.force) =>
                /\ last'.moved = << >>
                /\ section_tasks' = section_tasks]_vars

\* a live rule executed under the caller's override reported its moves
C7_Witness ==
    /\ last.op = "execute"
    /\ last.force
    /\ ~Truthy(rules[1].test_report_only)
    /\ last.logged /= << >>
    /\ last.moved = << >>

\* C8: execute() returns False when is_valid() returned False, and when
\* is_valid() returned True but is_criteria_met() returned False.
C8_ReturnsFalseWhenNotRun ==
    last.op = "execute" /\ last.out.exc = "none"
        /\ (last.valid_ret = Some(FALSE)
                \/ last.criteria_ret = Some(FALSE)) =>
            last.out.val = Some(FALSE)

\* C9: every invocation of _sync_and_validate_with_api() on a constructed
\* rule returns True or False; no exception escapes it.
C9_SyncReturnsBool ==
    last.synced =>
        /\ last.sync_out.exc = "none"
        /\ last.sync_out.val \in {Some(TRUE), Some(FALSE)}

\* the last call was an execute() that got past is_valid() and
\* is_criteria_met() with neither the rule's flag nor the caller's
\* override asking for a report only
LiveExecute ==
    /\ last.op = "execute"
    /\ last.criteria_ret = Some(TRUE)
    /\ ~last.force
    /\ ~Truthy(rules[last.idx].test_report_only)

\* C24: a live execute() calls move_task_to_section in the reverse of the
\* concatenated fetch order, once per fetched-and-filtered task; when it
\* finishes, the moved tasks are the top of the destination section in
\* the order in which they were fetched.
C24_MovesInReverseFetchOrder ==
    LiveExecute =>
        /\ Len(last.moved) <= Len(last.to_move)
        /\ \A k \in 1..Len(last.moved) :
                last.moved[k] = last.to_move[Len(last.to_move) + 1 - k]
        /\ last.out = Return(None) =>
                /\ Len(last.moved) = Len(last.to_move)
                /\ \A k \in 1..Len(last.to_move) :
                        section_tasks[Val(rules[last.idx].rule_params[
                            "dst_section_gid"])][k] = last.to_move[k]

\* a live execute() that fetched two tasks and moved both
C24_Witness ==
    /\ LiveExecute
    /\ last.out = Return(None)
    /\ Len(last.to_move) = 2
    /\ last.moved = <<last.to_move[2], last.to_move[1]>>
    /\ last.to_move[1] /= last.to_move[2]

\* the section of the file _main_rules read that rule i was loaded from
SectionOfRule(i) ==
    (CHOOSE sect \in Range(fn_call.args.cp) :
        sect.name = rules[i].rule_id).items

\* C28: a rule loaded from a section with no 'test report only' key has a
\* test-report-only flag of None, and execute() treats it as not set:
\* when the rule is valid, its criteria are met and the caller does not
\* force a report, nothing is reported and move_task_to_section is called
\* for the fetched tasks.
C28_MissingReportFlagMeansLive ==
    \A i \in 1..Len(rules) :
        fn_call.fn = "_main_rules"
            /\ "test report only" \notin DOMAIN SectionOfRule(i) =>
            /\ rules[i].test_report_only = None
            /\ last.op = "execute" /\ last.idx = i /\ ~last.force
                    /\ last.criteria_ret = Some(TRUE) =>
                    /\ last.logged = << >>
                    /\ last.to_move /= << >> => last.moved /= << >>
                    /\ last.out = Return(None) =>
                            Len(last.moved) = Len(last.to_move)

\* a rule loaded without the key was executed without the override and
\* moved the two tasks it fetched
C28_Witness ==
    /\ fn_call.fn = "_main_rules"
    /\ last.op = "execute"
    /\ "test report only" \notin DOMAIN SectionOfRule(last.idx)
    /\ rules[last.idx].test_report_only = None
    /\ ~last.force
    /\ last.out = Return(None)
    /\ Len(last.moved) = 2
    /\ section_tasks /= InitSectionTasks

\* the gids of the tasks of section sect of service st that pass the
\* due-date filter of the rule at the time now, in the order of the section
PassingTasks(st, sect, rps, now) ==
    LET fetch == get_filtered_tasks([fault |-> NoFault,
                                     client_cached |-> TRUE], 1, st, now,
                    sect, rps["match_no_due_date"],
                    rps["min_time_until_due"], rps["max_time_until_due"],
                    rps["min_due_assumed_time"], rps["max_due_assumed_time"])
    IN  [k \in 1..Len(fetch.val) |-> fetch.val[k]["gid"]]

\* the rule has no list of source sections to include or to exclude
NoSourceLists(rps) ==
    /\ rps["src_sections_include_names"] = None
    /\ rps["src_sections_include_gids"] = None
    /\ rps["src_sections_exclude_names"] = None
    /\ rps["src_sections_exclude_gids"] = None

\* C29: an execute() of a rule with no source includes and no excludes
\* that came to its end fetched every section of the effective container,
\* the destination section too when it is one of them, and selected the
\* tasks that sat in the destination section and pass the due-date
\* filter; a live execute() leaves them in that section.
C29_AllSectionsAreSources ==
    [][last'.op = "execute" /\ last'.criteria_ret = Some(TRUE)
            /\ last'.out = Return(None)
            /\ NoSourceLists(rules'[last'.idx].rule_params) =>
        LET rps == rules'[last'.idx].rule_params
            dst == Val(rps["dst_section_gid"])
            sects == {e.gid : e \in
                        Range(Sections[Val(rps["effective_project_gid"])])}
        IN  /\ Range(last'.fetched) = sects
            /\ dst \in sects =>
                    /\ dst \in Range(last'.fetched)
                    /\ \E now \in Nows :
                            Range(PassingTasks(section_tasks, dst, rps, now))
                                \subseteq Range(last'.to_move)
                    /\ ~last'.force
                            /\ ~Truthy(rules'[last'.idx].test_report_only) =>
                            Range(last'.to_move)
                                \subseteq Range(section_tasks'[dst])]_vars

\* the first call on a live rule for all sections of project 10 moved
\* task 1003, which was in the destination section 102 already, and task
\* 1001 of section 101 on top of it
C29_Witness ==
    /\ ncalls = 1
    /\ LiveExecute
    /\ last.out = Return(None)
    /\ NoSourceLists(rules[1].rule_params)
    /\ rules[1].rule_params["dst_section_gid"] = Some(102)
    /\ 102 \in Range(last.fetched)
    /\ 1003 \in Range(last.moved)
    /\ section_tasks[102] \in {<<1001, 1003>>, <<1003, 1001>>}

\* C30: in an execute() that called move_task_to_section or came to its
\* end, every net-included source section was fetched, and tasks_to_move
\* is the concatenation, in fetch order, of the tasks that passed the
\* filter in the sections as they were before the call: no fetch saw the
\* effect of a move of the same call.
C30_FetchesPrecedeMoves ==
    [][last'.op = "execute" /\ last'.criteria_ret = Some(TRUE)
            /\ (last'.moved /= << >> \/ last'.out = Return(None)) =>
        /\ Range(last'.fetched)
            = rules'[last'.idx].rule_params["src_net_include_section_gids"]
        /\ \E now \in Nows :
                last'.to_move
                    = Concat([k \in 1..Len(last'.fetched) |->
                        PassingTasks(section_tasks, last'.fetched[k],
                                     rules'[last'.idx].rule_params, now)])
      ]_vars

\* a live execute() fetched the destination section after the section of
\* a task it moved, and fetched that task once
C30_Witness ==
    /\ ncalls = 1
    /\ LiveExecute
    /\ last.fetched = <<101, 102, 103>>
    /\ rules[1].rule_params["dst_section_gid"] = Some(102)
    /\ last.to_move = <<1001, 1003>>
    /\ last.moved = <<1003, 1001>>

\* C25 as stated: once _sync_and_validate_with_api() ran on a rule and did
\* not report a failure, the effective container id of the rule is set;
\* it is the project gid when the rule names a project, by name or by gid
\* only, and the user-task-list gid otherwise.
C25_EffectiveContainerAfterSync ==
    last.synced /\ last.sync_out /= Return(Some(FALSE)) =>
        /\ "effective_project_gid" \in DOMAIN rules[last.idx].rule_params
        /\ rules[last.idx].rule_params["effective_project_gid"]
            = IF rules[last.idx].rule_params["project_name"] /= None
                    \/ rules[last.idx].rule_params["project_gid"] /= None
              THEN rules[last.idx].rule_params["project_gid"]
              ELSE rules[last.idx].rule_params["user_task_list_gid"]

-----------------------------------------------------------------------------
(* Properties of the constructor, checked under SpecCtor *)

\* C10: a constructor call succeeds only if exactly one of a project
\* reference (name or gid) and a user-task-list reference (my tasks list
\* or user task list gid) is set; with both or neither it raises an
\* AssertionError.
C10_ExactlyOneTargetKind ==
    LET project == ctor.rule_params["project_name"] /= None
                        \/ ctor.rule_params["project_gid"] /= None
        user_task_list ==
            ctor.rule_params["is_my_tasks_list"] = Some(TRUE)
                \/ ctor.rule_params["user_task_list_gid"] /= None
    IN  ctor.status /= "pending" =>
            /\ ctor.status = "constructed" => project /= user_task_list
            /\ project = user_task_list => ctor.status = "AssertionError"
            /\ ctor.status = "constructed" =>
                    /\ Len(rules) = 1
                    /\ rules[1].rule_params = ctor.rule_params

\* a project and the my-tasks list given together, with everything else
\* acceptable, were rejected
C10_Witness ==
    /\ ctor.status = "AssertionError"
    /\ ctor.message = Some("project xor utl")
    /\ ctor.rule_params["project_gid"] /= None
    /\ ctor.rule_params["is_my_tasks_list"] = Some(TRUE)
    /\ ctor.rule_params["workspace_gid"] /= None
    /\ ctor.rule_params["match_no_due_date"]
    /\ ctor.rule_params["min_time_until_due_str"] = None
    /\ ctor.rule_params["max_time_until_due_str"] = None

\* C11 as stated: every constructed rule has exactly one of workspace name
\* and workspace gid; a rule with both is rejected like a rule with neither.
C11_ExactlyOneWorkspaceReference ==
    ctor.status = "constructed" =>
        (ctor.rule_params["workspace_name"] /= None)
            /= (ctor.rule_params["workspace_gid"] /= None)

\* C11 amended: a constructor call succeeds only if at least one of
\* workspace name and workspace gid is set; with neither it raises an
\* AssertionError, and the workspace assertion fails for no rule that has
\* one of them or both.
C11_AtLeastOneWorkspaceReference ==
    LET workspace == ctor.rule_params["workspace_name"] /= None
                        \/ ctor.rule_params["workspace_gid"] /= None
    IN  ctor.status /= "pending" =>
            /\ ctor.status = "constructed" => workspace
            /\ ~workspace => ctor.status = "AssertionError"
            /\ ctor.message = Some("workspace") => ~workspace

\* a rule with both the name and the gid of its workspace was constructed
C11_Witness ==
    /\ ctor.status = "constructed"
    /\ ctor.rule_params["workspace_name"] /= None
    /\ ctor.rule_params["workspace_gid"] /= None

\* C12: a constructor call succeeds only if exactly one of the
\* match-no-due-date flag and a due-date window (a min or a max time until
\* due, as given and as parsed) is set; with both or neither it raises an
\* AssertionError.
C12_ExactlyOneDueDateMode ==
    LET window_given ==
            ctor.rule_params["min_time_until_due_str"] /= None
                \/ ctor.rule_params["max_time_until_due_str"] /= None
        window_parsed ==
            ctor.rule_params["min_time_until_due"] /= None
                \/ ctor.rule_params["max_time_until_due"] /= None
        no_due_date == ctor.rule_params["match_no_due_date"]
    IN  ctor.status /= "pending" =>
            /\ ctor.status = "constructed" =>
                    /\ window_given /= no_due_date
                    /\ window_parsed /= no_due_date
            /\ window_given = no_due_date \/ window_parsed = no_due_date =>
                    ctor.status = "AssertionError"

\* a due-date window given together with match-no-due-date, on a rule
\* acceptable in everything else, was rejected by the last assertion
C12_Witness ==
    /\ ctor.status = "AssertionError"
    /\ ctor.message = Some("time xor no due")
    /\ ctor.rule_params["match_no_due_date"]
    /\ ctor.rule_params["min_time_until_due"] /= None

\* C26 as stated: a constructor call whose only target is a user task
\* list gid (no project name or gid, 'for my tasks list' absent and so
\* None), with a workspace and exactly one due-date mode, is constructed.
C26_UserTaskListGidAloneIsAccepted ==
    /\ ctor.status /= "pending"
    /\ ctor.rule_params["project_name"] = None
    /\ ctor.rule_params["project_gid"] = None
    /\ ctor.rule_params["is_my_tasks_list"] = None
    /\ ctor.rule_params["user_task_list_gid"] /= None
    /\ ctor.rule_params["workspace_name"] /= None
            \/ ctor.rule_params["workspace_gid"] /= None
    /\ (ctor.rule_params["min_time_until_due_str"] /= None
            \/ ctor.rule_params["max_time_until_due_str"] /= None)
        /= ctor.rule_params["match_no_due_date"]
    /\ (ctor.rule_params["min_time_until_due"] /= None
            \/ ctor.rule_params["max_time_until_due"] /= None)
        /= ctor.rule_params["match_no_due_date"]
    => ctor.status = "constructed"

-----------------------------------------------------------------------------
(* Properties of the parsers, checked under SpecParse *)

\* C20: parse_timeframe counts the matches of all indicator variants of
\* the set together: with no match it returns 0, with exactly one match
\* that match's signed number, and with more than one match, from one
\* variant or from several, it raises TimeframeArgDupeError.
C20_OneMatchAcrossVariants ==
    LET entries == TimeframeEntries(fn_call.args.tf_str)
        variants == fn_call.args.timeframes
        matches ==
            {<<k, j>> \in (1..Len(variants)) \X (1..Len(entries)) :
                IF variants[k].case_sensitive
                THEN entries[j].unit \in Words(variants[k].ptn)
                ELSE LowerCase(entries[j].unit) \in Words(variants[k].ptn)}
    IN  fn_call.fn = "parse_timeframe" /\ fn_call.status /= "pending" =>
            /\ matches = {} => fn_call.out = Return(0)
            /\ Cardinality(matches) = 1 =>
                    \E m \in matches :
                        fn_call.out = Return(entries[m[2]].num)
            /\ Cardinality(matches) > 1 =>
                    fn_call.out = Raise("TimeframeArgDupeError")

\* one match of the word variant and one of the letter variant of the
\* hours were found together, and the call raised
C20_Witness ==
    /\ fn_call.fn = "parse_timeframe"
    /\ fn_call.args.tf_str = "1h 2hours"
    /\ fn_call.args.timeframes = Timeframe("hours?", "h")
    /\ fn_call.status = "raised"
    /\ fn_call.out.exc = "TimeframeArgDupeError"

-----------------------------------------------------------------------------
(* Properties of asana/utils.py, checked under SpecUtils *)

\* the gids of the sections of container c whose name is in names
GidsOfNames(c, names) ==
    {e.gid : e \in {e \in Range(Sections[c]) : e.name \in Range(names)}}

\* the service answers every request of the call, and every name of the
\* list is the name of exactly one section of container c
NamesResolve(c, names) ==
    \A k \in 1..Len(names) :
        Cardinality({e \in Range(Sections[c]) : e.name = names[k]}) = 1

\* a call of get_net_include_section_gids ended in which the service
\* answered and the names were resolved to gids
NetIncludeResolved ==
    /\ fn_call.fn = "get_net_include_section_gids"
    /\ fn_call.status /= "pending"
    /\ fn_call.args.fault = NoFault
    /\ NamesResolve(fn_call.args.proj_or_utl_gid,
                    ListOrEmpty(fn_call.args.include_sect_names))
    /\ NamesResolve(fn_call.args.proj_or_utl_gid,
                    ListOrEmpty(fn_call.args.exclude_sect_names))

\* the total include ids and the total exclude ids of the call
TotalIncludeGids ==
    GidsOfNames(fn_call.args.proj_or_utl_gid,
                ListOrEmpty(fn_call.args.include_sect_names))
        \cup Range(ListOrEmpty(fn_call.args.include_sect_gids))

TotalExcludeGids ==
    GidsOfNames(fn_call.args.proj_or_utl_gid,
                ListOrEmpty(fn_call.args.exclude_sect_names))
        \cup Range(ListOrEmpty(fn_call.args.exclude_sect_gids))

ContainerSectionGids ==
    {e.gid : e \in Range(Sections[fn_call.args.proj_or_utl_gid])}

\* C15: get_net_include_section_gids raises DataMissingError, and returns
\* nothing, whenever an explicitly included section id (a given gid or
\* the gid an included name was resolved to) is not one of the sections
\* of the container.
C15_MissingIncludeRaises ==
    NetIncludeResolved /\ TotalIncludeGids \ ContainerSectionGids /= {} =>
        /\ fn_call.status = "raised"
        /\ fn_call.out = Raise("DataMissingError")

\* gid 999, which is no section, was included and the call raised
C15_Witness ==
    /\ NetIncludeResolved
    /\ 999 \in TotalIncludeGids
    /\ fn_call.out.exc = "DataMissingError"

\* C16 as stated: get_net_include_section_gids raises DataConflictError
\* whenever the total include ids and the total exclude ids intersect.
C16_ConflictAlwaysRaisesConflictError ==
    NetIncludeResolved /\ TotalIncludeGids \cap TotalExcludeGids /= {} =>
        fn_call.out = Raise("DataConflictError")

\* C16: get_net_include_section_gids raises DataConflictError whenever the
\* total include ids and the total exclude ids intersect and every
\* included id is a section of the container; an included id that is not
\* is reported first, as DataMissingError.
C16_ConflictRaisesUnlessIncludeMissing ==
    NetIncludeResolved /\ TotalIncludeGids \cap TotalExcludeGids /= {} =>
        fn_call.out =
            IF TotalIncludeGids \subseteq ContainerSectionGids
            THEN Raise("DataConflictError")
            ELSE Raise("DataMissingError")

\* section 101 was included by name and excluded by gid: conflict
C16_Witness ==
    /\ NetIncludeResolved
    /\ TotalIncludeGids \subseteq ContainerSectionGids
    /\ 101 \in TotalIncludeGids \cap TotalExcludeGids
    /\ fn_call.out.exc = "DataConflictError"

\* C17: when get_net_include_section_gids returns, the result is the
\* total include id set if any explicit include was given; otherwise,
\* with default_to_include, the sections of the container less the
\* total exclude ids; otherwise the empty set.
C17_ResultFollowsPolicy ==
    NetIncludeResolved /\ fn_call.status = "returned" =>
        fn_call.out.val =
            IF TotalIncludeGids /= {} THEN TotalIncludeGids
            ELSE IF fn_call.args.default_to_include
                 THEN ContainerSectionGids \ TotalExcludeGids
            ELSE {}

\* with default_to_include, an explicit include narrowed the result to
\* the included sections although nothing was excluded from the rest
C17_Witness ==
    /\ NetIncludeResolved
    /\ fn_call.status = "returned"
    /\ fn_call.args.default_to_include
    /\ TotalIncludeGids /= {}
    /\ fn_call.out.val = TotalIncludeGids
    /\ fn_call.out.val /= ContainerSectionGids \ TotalExcludeGids

\* a call of get_filtered_tasks ended
FilteredTasksEnded ==
    fn_call.fn = "get_filtered_tasks" /\ fn_call.status /= "pending"

\* exactly one of: match_no_due_date, a min or a max window
ExactlyOneDueFilter ==
    fn_call.args.match_no_due_date
        /= (fn_call.args.min_time_until_due /= None
                \/ fn_call.args.max_time_until_due /= None)

\* C18: get_filtered_tasks raises AssertionError, before it fetches
\* anything from the service (no client is created, and a service that
\* would fail the fetch is not noticed), unless exactly one of
\* match_no_due_date and a min or max time-until-due window is given.
C18_AssertsBeforeFetching ==
    FilteredTasksEnded =>
        IF ExactlyOneDueFilter
        THEN fn_call.out.exc /= "AssertionError"
        ELSE fn_call.out = Raise("AssertionError") /\ ~client_cached

\* both filters were given to a service that fails the fetch: the call
\* raised the assertion, not the service's error
C18_Witness ==
    /\ FilteredTasksEnded
    /\ fn_call.args.match_no_due_date
    /\ fn_call.args.max_time_until_due /= None
    /\ fn_call.args.fault.fn = "get_tasks"
    /\ fn_call.out.exc = "AssertionError"

\* C19 as stated: the tasks get_filtered_tasks returns carry the
\* 'completed' field and none of them is completed.
C19_OnlyIncompleteTasksKept ==
    FilteredTasksEnded /\ fn_call.status = "returned" =>
        \A k \in 1..Len(fn_call.out.val) :
            /\ "completed" \in DOMAIN fn_call.out.val[k]
            /\ ~Tasks[fn_call.out.val[k]["gid"]].completed

\* C27: whenever get_net_include_section_gids returns, the set it returns
\* is a subset of the sections of the container and holds no id of the
\* total exclude set.
C27_ResultWithinContainerAndNotExcluded ==
    fn_call.fn = "get_net_include_section_gids"
        /\ fn_call.status = "returned"
    => /\ fn_call.out.val \subseteq ContainerSectionGids
       /\ fn_call.out.val \cap TotalExcludeGids = {}

\* a call with no include that defaulted to the sections of the container
\* and left out an excluded section of it, by name and by gid
C27_Witness ==
    /\ fn_call.fn = "get_net_include_section_gids"
    /\ fn_call.status = "returned"
    /\ fn_call.args.default_to_include
    /\ TotalIncludeGids = {}
    /\ {101, 102} \subseteq TotalExcludeGids
    /\ fn_call.out.val = {103}

-----------------------------------------------------------------------------
(* Properties of the loaders, checked under SpecLoad *)

\* the call returned a rule
IsLoaded(out) == out.exc = "none" /\ out.val /= None

\* the section read on its own, under the name it has in the file, has a
\* rule type that is a registered alias and is parsed and constructed
SectionLoads(sect) ==
    /\ "rule type" \in DOMAIN sect.items
    /\ sect.items["rule type"] \in get_rule_type_names
    /\ IsLoaded(MoveTasksRule_load_specific_from_conf(<<sect>>, sect.name))

\* C13 as stated: load_all_from_config never raises, and it returns one
\* rule for each section whose rule type is a registered alias and whose
\* parsing and construction succeed, in the order of the sections; every
\* other section is skipped.
C13_LoadsExactlyTheSectionsThatParse ==
    fn_call.fn = "load_all_from_config" /\ fn_call.status /= "pending" =>
        /\ fn_call.status = "returned"
        /\ Len(fn_call.out.val)
                = Len(SelectSeq(fn_call.args.cp, SectionLoads))
        /\ \A k \in 1..Len(fn_call.out.val) :
                fn_call.out.val[k].rule_params
                    = ConfRuleParams(ConfOutcomes(
                        <<SelectSeq(fn_call.args.cp, SectionLoads)[k]>>,
                        SelectSeq(fn_call.args.cp, SectionLoads)[k].name))

\* a timeframe string in which parse_timeframe recognises an entry for
\* one of the six units
Recognised(tf_str) ==
    \E k \in 1..Len(Timeframes) :
        \E v \in 1..Len(Timeframes[k]) :
            \E j \in 1..Len(TimeframeEntries(tf_str)) :
                IF Timeframes[k][v].case_sensitive
                THEN TimeframeEntries(tf_str)[j].unit
                        \in Words(Timeframes[k][v].ptn)
                ELSE LowerCase(TimeframeEntries(tf_str)[j].unit)
                        \in Words(Timeframes[k][v].ptn)

\* the option of the section the call loads is a non-empty text with no
\* recognised entry
MalformedTimeframe(option) ==
    /\ HasOption(fn_call.args.cp, fn_call.args.rule_id, option)
    /\ SectionItems(fn_call.args.cp, fn_call.args.rule_id)[option] /= ""
    /\ ~Recognised(SectionItems(fn_call.args.cp,
                                fn_call.args.rule_id)[option])

\* C14 as stated: MoveTasksRule.load_specific_from_conf returns None for a
\* section whose 'min time until due' or 'max time until due' is a
\* non-empty text in which no <number><unit> entry is recognised.
C14_MalformedTimeframeFailsToLoad ==
    /\ fn_call.fn = "load_specific_from_conf"
    /\ fn_call.status /= "pending"
    /\ MalformedTimeframe("min time until due")
            \/ MalformedTimeframe("max time until due")
    => fn_call.out = Return(None)

-----------------------------------------------------------------------------
(* Properties of _filter_tasks_by_datetime, checked under SpecFilter *)

\* the call of _filter_tasks_by_datetime returned
FilterEnded ==
    /\ fn_call.fn = "_filter_tasks_by_datetime"
    /\ fn_call.status = "returned"

\* the window of the call is given and has a time component
TimedWindow ==
    /\ fn_call.args.rel_dt_until_due /= None
    /\ \/ Val(fn_call.args.rel_dt_until_due).hours /= 0
       \/ Val(fn_call.args.rel_dt_until_due).minutes /= 0

\* the window of the call is given and names whole days only
DateWindow ==
    /\ fn_call.args.rel_dt_until_due /= None
    /\ Val(fn_call.args.rel_dt_until_due).hours = 0
    /\ Val(fn_call.args.rel_dt_until_due).minutes = 0

HasDueAt(task) == "due_at" \in DOMAIN task /\ task["due_at"] /= None

\* base + window as an instant
WindowInstant ==
    fn_call.args.dt_base.utc
        + Val(fn_call.args.rel_dt_until_due).days * 1440
        + Val(fn_call.args.rel_dt_until_due).hours * 60
        + Val(fn_call.args.rel_dt_until_due).minutes

\* the due date of the task at the assumed time of day in the zone of base
AssumedInstant(task) ==
    Val(task["due_on"]) * 1440 + Val(fn_call.args.time_due_assumed).minutes
        - fn_call.args.dt_base.tz

Holds(a, b) ==
    \/ fn_call.args.op = "ge" /\ a >= b
    \/ fn_call.args.op = "le" /\ a <= b
    \/ fn_call.args.op = "lt" /\ a < b

GidsOf(tasks) == {tasks[k].gid : k \in 1..Len(tasks)}

\* C21: with a window that carries a time component, a task with no due
\* date is excluded; a task with due_at is compared by its due_at; a task
\* without due_at is compared by its due date at the assumed time in the
\* zone of base, and excluded when no assumed time is given; the tasks
\* kept are exactly those whose due value is <op> base + window, in the
\* order given.
C21_TimedWindowComparesDueDatetime ==
    FilterEnded /\ TimedWindow
    => fn_call.out.val
        = SelectSeq(fn_call.args.tasks, LAMBDA task :
            /\ task["due_on"] /= None
            /\ IF HasDueAt(task)
               THEN Holds(Val(task["due_at"]), WindowInstant)
               ELSE /\ fn_call.args.time_due_assumed /= None
                    /\ Holds(AssumedInstant(task), WindowInstant))

\* a task with due_at and a task without are both kept under an assumed
\* time, the second only because of the assumed time of day, and a task
\* with no due date was dropped
C21_Witness ==
    /\ FilterEnded /\ TimedWindow
    /\ fn_call.args.time_due_assumed /= None
    /\ 7001 \in GidsOf(fn_call.args.tasks)
    /\ {7002, 7004} \subseteq GidsOf(fn_call.out.val)
    /\ 7005 \in GidsOf(fn_call.args.tasks) \ GidsOf(fn_call.out.val)
    /\ ~Holds(Val(FilterTasks[2]["due_on"]) * 1440 - fn_call.args.dt_base.tz,
              WindowInstant)

\* C22: with a window of whole days, only due_on is compared, against the
\* date of base in its own zone plus the window; due_at and the assumed
\* time have no effect.
C22_DateWindowComparesDueOnOnly ==
    FilterEnded /\ DateWindow
    => fn_call.out.val
        = SelectSeq(fn_call.args.tasks, LAMBDA task :
            /\ task["due_on"] /= None
            /\ Holds(Val(task["due_on"]),
                     (fn_call.args.dt_base.utc + fn_call.args.dt_base.tz)
                            \div 1440
                        + Val(fn_call.args.rel_dt_until_due).days))

\* a task whose due_at falls on the next day in UTC is kept by its due_on
\* although its due_at would not pass, with an assumed time given
C22_Witness ==
    /\ FilterEnded /\ DateWindow
    /\ fn_call.args.time_due_assumed /= None
    /\ fn_call.args.op = "le"
    /\ 7005 \in GidsOf(fn_call.out.val)
    /\ 7004 \in GidsOf(fn_call.args.tasks) \ GidsOf(fn_call.out.val)
    /\ ~Holds(Val(FilterTasks[5]["due_at"]) \div 1440,
              (fn_call.args.dt_base.utc + fn_call.args.dt_base.tz) \div 1440
                + Val(fn_call.args.rel_dt_until_due).days)

\* the result of the call had base been the same instant in zone tz
InZone(tz) ==
    _filter_tasks_by_datetime(fn_call.args.tasks,
        [utc |-> fn_call.args.dt_base.utc, tz |-> tz],
        fn_call.args.rel_dt_until_due, fn_call.args.op,
        fn_call.args.time_due_assumed)

DateWindowInZone(tz) ==
    _filter_tasks_by_datetime(fn_call.args.tasks,
        [utc |-> fn_call.args.dt_base.utc, tz |-> tz],
        Some(RelDelta(0, 0, 0)), fn_call.args.op, None)

====
